---- MODULE Spec2Model ----
(***************************************************************************)
(* Gateway of composite-v4 (src/unnamed/part_000): the Session Registry    *)
(* (socket.io namespace /socket, connected_users) and the Completion Relay *)
(* (POST /v1/chat/completions).                                            *)
(*                                                                         *)
(* Strings are sequences of one-character strings where the code inspects  *)
(* them (keys, the authorization header).  A generated fragment is an      *)
(* abstract string [id, len]; a substring of it is the index range         *)
(* [id, len, from, to], which is what String.prototype.slice computes.     *)
(*                                                                         *)
(* Time: Date.now() is read by the relay only as the age                   *)
(* Date.now() - lastMessageTime, so the model keeps that age               *)
(* (timeSinceLastMessage, saturated at the largest value the code          *)
(* distinguishes) and keeps every setTimeout handle as the delay that      *)
(* remains until it fires.  Handlers run to completion, one at a time.     *)
(***************************************************************************)
EXTENDS Integers, Sequences, FiniteSets, TLC

\* ------------------------------------------------------------------ bounds
MaxSockets == 3          \* channels that ever connect (SpecRegistry)
MaxRequests == 2         \* HTTP completion requests (SpecRegistry)
MaxRelaySockets == 1     \* channels that ever connect (Spec)
MaxRelayRequests == 1    \* HTTP completion requests (Spec)
MaxFrags == 2            \* 'message' events handled per relay call
MaxDone == 2             \* 'done' events handled per relay call
MaxTransportErrors == 1  \* 'error' events on the HTTP transport per call
TicksPerSecond == 1      \* clock granularity
MaxCheckRuns == 2        \* autoCheck runs of the Hyper instance (SpecHyper)
MaxGenerateCalls == 1    \* generateResponse calls of the Hyper instance (SpecHyper)
MaxWindowRequests == 102 \* requests of one key counted in one window (SpecLimiter)
WindowTicks == 1         \* clock steps per rate limit window (SpecLimiter)
MaxDonations == 3        \* POST /donate requests (SpecDonate)
MaxInFlight == 2         \* POST /donate requests between their read and their write
MaxGenerations == 2      \* start_generate events the remote end receives (SpecRemote)
MaxRunning == 1          \* generations of the remote end in progress at once (SpecRemote)
MaxEngineSteps == 2      \* chunks, reads or items one generation handles (SpecRemote)
MaxStops == 1            \* stop_generation events the remote end receives (SpecRemote)
MaxErrorEvents == 61     \* 'error' events on the HTTP transport per call (SpecErrors)
MaxMessages == 4         \* 'message' events handled per relay call (SpecWrites)

\* ------------------------------------------------------- program constants
MinKeyLen == 10
MAX_ERRORS == 3
MAX_CONNECTION_ERRORS == 60
chunkSize == 8000
DoneDelay == 4000
QuietPeriod == 2000
DisconnectDelay == 2000

Tick == 1000 \div TicksPerSecond
NoTimer == -1
NoSocket == 0
Sockets == 1..(IF MaxSockets >= MaxRelaySockets THEN MaxSockets ELSE MaxRelaySockets)

Min(a, b) == IF a <= b THEN a ELSE b

\* ----------------------------------------------------------------- strings
Str(c, n) == [i \in 1..n |-> c]
KeyA == Str("a", 10)
KeyB == Str("b", 11)
ShortKey == Str("c", 9)
Bearer == <<"B", "e", "a", "r", "e", "r", " ">>
Basic == <<"B", "a", "s", "i", "c", " ">>
Whitespace == {" ", "\t"}

StartsWith(s, p) == Len(s) >= Len(p) /\ SubSeq(s, 1, Len(p)) = p

\* s.split(" ")[n], n counted from 0; <<>> stands for a token that is empty
\* (the code only calls it after startsWith('Bearer '), so token 1 exists)
RECURSIVE SplitToken(_, _)
SplitToken(s, n) ==
  LET spaces == {i \in 1..Len(s) : s[i] = " "}
      first == IF spaces = {} THEN Len(s) + 1
               ELSE CHOOSE i \in spaces : \A j \in spaces : i <= j
  IN IF n = 0 THEN SubSeq(s, 1, first - 1)
     ELSE IF spaces = {} THEN <<>>
     ELSE SplitToken(SubSeq(s, first + 1, Len(s)), n - 1)

RECURSIVE trim(_)
trim(s) ==
  IF s = <<>> THEN s
  ELSE IF s[1] \in Whitespace THEN trim(Tail(s))
  ELSE IF s[Len(s)] \in Whitespace THEN trim(SubSeq(s, 1, Len(s) - 1))
  ELSE s

\* String.prototype.toLowerCase, for the letters the inputs use
toLowerCase(s) ==
  [i \in 1..Len(s) |->
     CASE s[i] = "E" -> "e" [] s[i] = "H" -> "h" [] s[i] = "R" -> "r"
       [] s[i] = "S" -> "s" [] s[i] = "T" -> "t" [] OTHER -> s[i]]

\* String.prototype.includes
includes(s, p) ==
  \E i \in 1..(Len(s) - Len(p) + 1) : SubSeq(s, i, i + Len(p) - 1) = p

\* socket.handshake.query.key
HandshakeKeys ==
  {[type |-> "undefined", value |-> <<>>], [type |-> "array", value |-> KeyA],
   [type |-> "string", value |-> <<>>], [type |-> "string", value |-> ShortKey],
   [type |-> "string", value |-> KeyA], [type |-> "string", value |-> KeyB]}

\* request.headers.authorization
AuthHeaders ==
  {[present |-> FALSE, value |-> <<>>],
   [present |-> TRUE, value |-> Basic \o KeyA],
   [present |-> TRUE, value |-> Bearer],
   [present |-> TRUE, value |-> Bearer \o KeyA],
   [present |-> TRUE, value |-> Bearer \o KeyA \o <<"\t">>],
   [present |-> TRUE, value |-> Bearer \o KeyB]}

\* request.body.messages, by shape (noBody: the request has no body at all)
MessagesShapes == {"noBody", "undefined", "string", "emptyArray", "array"}
\* request.body.stream and request.body.non_stream
Flags == {"undefined", "true", "false"}
\* stream and non_stream of a request to the registry: none, stream: false,
\* non_stream: true
RegistryFlags == {<<"undefined", "undefined">>, <<"false", "undefined">>, <<"undefined", "true">>}

\* ---------------------------------------------------------------- fragments
Fragments ==
  {[id |-> "Hel", len |-> 3], [id |-> "lo!", len |-> 3],
   [id |-> "M", len |-> chunkSize], [id |-> "N", len |-> chunkSize + 1],
   [id |-> "P", len |-> 2 * chunkSize + 1]}
EmptyString == [id |-> "", len |-> 0]

\* the argument of a 'message' event
Chunks ==
  {[kind |-> "null", str |-> EmptyString]}
  \cup {[kind |-> "string", str |-> f] : f \in Fragments}

\* a 'message' event and the writes of its handler that throw, by ordinal.
\* An aggregating call never reads the length of a fragment and writes
\* nothing while fragments arrive, so it is given the short fragments only.
MessageInputs(nonStream) ==
  IF nonStream
  THEN {<<c, {}>> : c \in {d \in Chunks : d.str.len < chunkSize}}
  ELSE {<<c, {}>> : c \in Chunks}
       \cup {<<[kind |-> "string", str |-> [id |-> "Hel", len |-> 3]], {1}>>,
             <<[kind |-> "string", str |-> [id |-> "N", len |-> chunkSize + 1]], {1}>>}

\* content.slice(from, to)
slice(content, from, to) ==
  [id |-> content.id, len |-> content.len,
   from |-> Min(from, content.len), to |-> Min(to, content.len)]
Whole(content) == slice(content, 0, content.len)


\* ---------------------------------------------------------- Hyper: catalog
\* this.models, in catalog order
models ==
  <<"qwen3-coder:480b", "deepseek-v3.1:671b", "moonshotai/kimi-k2-instruct",
    "gemini", "deepseek-reasoning", "deepseek", "mistral">>

total_apis == {"pollig4f", "groq", "ollama"}

\* this.conversion: model -> engine
conversion ==
  [m \in {"gemini", "deepseek", "deepseek-reasoning", "mistral",
          "moonshotai/kimi-k2-instruct", "grok-4-fast-non-reasoning",
          "qwen3-coder:480b", "deepseek-v3.1:671b"} |->
     CASE m \in {"gemini", "deepseek", "deepseek-reasoning", "mistral"} -> "pollig4f"
       [] m = "moonshotai/kimi-k2-instruct" -> "groq"
       [] m = "grok-4-fast-non-reasoning" -> "grok"
       [] OTHER -> "ollama"]

\* the engines this.endpoints has a URL for
endpoints == {"pollig4f", "groq", "grok", "ollama"}

\* this.config.maxRetries, this.config.retryDelay and the arguments autoCheck
\* passes to retryWithBackoff
maxRetries == 3
retryDelay == 1000
checkRetries == 2
checkRetryDelay == 500

NoModel == ""
ModelIndex == 1..Len(models)

\* a response of a provider to one HTTP request.  body.choices[0].message.content
\* is a string of characters, or absent, or not a string
TestWord == <<"t", "e", "s", "t">>
Contents == {<<"T", "e", "s", "t", ".">>, TestWord, <<"h", "i">>, <<>>}
Responses ==
  {[kind |-> k, content |-> <<>>] : k \in {"timeout", "http", "noChoices", "noContent", "notString"}}
  \cup {[kind |-> "content", content |-> c] : c \in Contents}

\* one line of an event stream: a data line with choices[0].delta.content, the
\* data line [DONE], a data line that is not JSON, a line that is not data
StreamLines ==
  {[kind |-> "delta", content |-> <<"H", "e", "l">>],
   [kind |-> "delta", content |-> <<"l", "o", "!">>],
   [kind |-> "delta", content |-> <<>>],
   [kind |-> "done", content |-> <<>>],
   [kind |-> "malformed", content |-> <<>>],
   [kind |-> "comment", content |-> <<>>]}

NoLine == [kind |-> "none", content |-> <<>>]
Hel == [kind |-> "delta", content |-> <<"H", "e", "l">>]
Lo == [kind |-> "delta", content |-> <<"l", "o", "!">>]
EmptyDelta == [kind |-> "delta", content |-> <<>>]
DoneLine == [kind |-> "done", content |-> <<>>]

\* what one reader.read() yields: lines that end in this piece of text, then
\* possibly the head of a line whose newline comes with a later read (open).
\* A read that follows an open head starts with the rest of that line.
Read(lines, open) == [lines |-> lines, open |-> open]

\* a response to a streaming request: HTTP status ok or not, the reads of its
\* body, and whether the body ends (done) or a read rejects (error)
Streams ==
  {[ok |-> FALSE, reads |-> <<>>, ends |-> "done"],
   [ok |-> TRUE, reads |-> <<>>, ends |-> "done"],
   [ok |-> TRUE, reads |-> <<Read(<<DoneLine>>, NoLine)>>, ends |-> "done"],
   [ok |-> TRUE, reads |-> <<Read(<<EmptyDelta>>, Hel)>>, ends |-> "done"],
   [ok |-> TRUE, reads |-> <<Read(<<Hel>>, Lo)>>, ends |-> "done"],
   [ok |-> TRUE, reads |-> <<Read(<<Hel>>, NoLine)>>, ends |-> "error"],
   [ok |-> TRUE,
    reads |-> <<Read(<<Hel, EmptyDelta, [kind |-> "malformed", content |-> <<>>]>>, Lo),
                Read(<<[kind |-> "comment", content |-> <<>>], DoneLine>>, NoLine)>>,
    ends |-> "done"]}

\* the locals of generateResponse before any call.  sources is not a variable
\* of the code: the models whose fragments the callback of the call was
\* given, one entry per attempt that passed some
IdleCall ==
  [state |-> "idle", streaming |-> FALSE, availableModels |-> <<>>, i |-> 0,
   lastError |-> "null", result |-> [model |-> NoModel, type |-> "undefined", value |-> <<>>],
   error |-> [message |-> "none", last |-> ""],
   contacted |-> <<>>, httpRequests |-> 0, onChunk |-> <<>>, sources |-> <<>>]

\* ------------------------------------------------------------ rate limiter
\* the arguments of rateLimit(100, 60000, ['/health', '/api/stats'])
maxRequests == 100
windowMs == 60000
skipPaths ==
  {<<"/", "h", "e", "a", "l", "t", "h">>,
   <<"/", "a", "p", "i", "/", "s", "t", "a", "t", "s">>}

\* request.ip, request.headers['x-forwarded-for'] (<<>>: absent) and request.url
Ip1 == <<"1", "0", ".", "0", ".", "0", ".", "1">>
Ip2 == <<"1", "0", ".", "0", ".", "0", ".", "2">>
HookRequests ==
  {[ip |-> Ip1, forwardedFor |-> <<>>, url |-> <<"/", "a">>],
   [ip |-> Ip1, forwardedFor |-> Ip2, url |-> <<"/", "b">>],
   [ip |-> Ip2, forwardedFor |-> <<>>, url |-> <<"/", "h", "e", "a", "l", "t", "h", "z">>],
   [ip |-> <<>>, forwardedFor |-> <<>>, url |-> <<"/", "a", "p", "i", "/", "s", "t", "a", "t", "s">>]}

\* a record whose resetTime is in the past: resetTime - now, for any such time
Elapsed == -1
RateTick == windowMs \div WindowTicks

\* ---------------------------------------------------------------- dedup log
\* the constants of POST /donate and of the similarity functions
similarityThreshold == [n |-> 90, d |-> 100]
messageThreshold == [n |-> 85, d |-> 100]
substringFloor == [n |-> 8, d |-> 10]
recentCheckLimit == 100
storedMessages == 15
storedChats == 1000
comparedMessages == 5
normalizedLength == 1000
substringMinLength == 10

Punctuation == {"!", "?", ".", ","}

\* a message of a transcript: an object with a string content, an object
\* without content, or something that is not an object
Msg(content) == [kind |-> "object", content |-> content]
HiThere == Msg(<<"H", "i", " ", "t", "h", "e", "r", "e", "!">>)
HiThereSpaced == Msg(<<" ", "h", "i", "\t", " ", "T", "H", "E", "R", "E">>)
Bye == Msg(<<"b", "y", "e">>)
Question == Msg(<<"w", "h", "a", "t", " ", "i", "s", " ", "t", "h", "e", " ", "t", "i", "m", "e",
                  " ", "n", "o", "w">>)
QuestionTypo == Msg(<<"w", "h", "a", "t", " ", "i", "s", " ", "t", "h", "e", " ", "t", "i", "m", "e",
                      " ", "n", "o", "t">>)
NoContent == [kind |-> "object", content |-> <<>>]
NotObject == [kind |-> "string", content |-> <<>>]

Rep(m, n) == [i \in 1..n |-> m]

\* request.body.messages of POST /donate when it is an array
Transcripts ==
  {<<>>, <<HiThere, Bye>>, <<HiThereSpaced, Bye>>, <<Question, NoContent>>,
   <<QuestionTypo, NotObject>>, Rep(HiThere, 7), Rep(HiThere, 10), Rep(HiThere, 22)}

\* request.body of POST /donate: messages is an array or is not
DonateBodies ==
  {[isArray |-> FALSE, messages |-> <<>>]}
  \cup {[isArray |-> TRUE, messages |-> t] : t \in Transcripts}

\* decimal digits of a number, as a string
Digits == <<"0", "1", "2", "3", "4", "5", "6", "7", "8", "9">>
RECURSIVE toString(_)
toString(n) == IF n < 10 THEN <<Digits[n + 1]>> ELSE toString(n \div 10) \o <<Digits[(n % 10) + 1]>>

\* donate.json after n earlier submissions of one message each, all different
\* enough to have been accepted: the messages "1", "2", ... "n"
Stored(n) == [i \in 1..n |-> <<Msg(toString(i))>>]

\* --------------------------------------------------------------- remote end
\* the browser end of the channel (part_002, part_001).  Its functions are
\* async: a generation is a run that advances when the promise it awaits
\* settles.  The events a run emits on the channel are kept with the run: a
\* message event with the literal it carries ("text" for generated text), or done.
MessageEvent(text) == [type |-> "message", text |-> text]
DoneSignal == [type |-> "done", text |-> ""]
Generated == MessageEvent("text")

\* the value of the engine selector; the last one is none of the known ones
EngineTypes ==
  {"WebLLM (Local AI)", "Pollinations (Cloud AI)", "Yuzu (Cloud AI)", "Yuzu (AUTO)",
   "Hyper (Auto)", "Custom Engine", "Other"}

\* the messages of start_generate: what the relay accepted, an array
StartShapes == {"emptyArray", "array"}

\* a piece of generated text as handleEmit reads it: whether it is empty,
\* whether it holds <think> or </think>, whether text that is not blank
\* stands before <think> (after </think>), whether it holds a full stop, and
\* whether its length brings the length of genned to a multiple of 50
Piece(empty, tag, rest, dot, fills) ==
  [empty |-> empty, tag |-> tag, rest |-> rest, dot |-> dot, fills |-> fills]
NoPiece == Piece(TRUE, "none", FALSE, FALSE, FALSE)
Hello == Piece(FALSE, "none", FALSE, FALSE, FALSE)
HandleChunks ==
  {NoPiece, Hello, Piece(FALSE, "none", FALSE, FALSE, TRUE),
   Piece(FALSE, "open", TRUE, FALSE, FALSE), Piece(FALSE, "close", FALSE, FALSE, FALSE),
   Piece(FALSE, "none", FALSE, TRUE, FALSE)}

\* the literals streamingGeneratingHyper passes to handleEmit
UsingModel(fills) == Piece(FALSE, "none", FALSE, FALSE, fills)
HyperNotInitialized(fills) == Piece(FALSE, "none", FALSE, TRUE, fills)
HyperFailed(fills) == Piece(FALSE, "none", FALSE, FALSE, fills)

\* the module state of generation.js before any generation, and the
\* confirmation timers of stop_generation that are pending (stops: the
\* stop_generation events received).  startedBefore is not a variable of the
\* code: for each pending timer, oldest first, the number of start_generate
\* events received before its stop_generation
IdleRemote ==
  [generationStopped |-> FALSE, currentGeneration |-> 0, inThinkingMode |-> FALSE,
   stopTimers |-> 0, stops |-> 0, startedBefore |-> <<>>]

\* -------------------------------------------------------------------- state
VARIABLES
  sockets,            \* socket id -> [state, query, reason]: every channel that ever connected
  connected_users,    \* the Map connected_users: key -> [socket]
  emitted,            \* socket id -> events the server emitted to that channel
  phase,              \* the current HTTP request: idle, answered (rejected), running
  requests,           \* HTTP requests received
  gen,                \* the closure variables of the running relay call
  reply,              \* what was written to the HTTP response of the current request
  closeEmitted,       \* reply.raw has emitted 'close'
  total_messages,
  total_message_len,
  frags,              \* 'message' events handled by the current call
  dones,              \* 'done' events handled by the current call
  delivered,          \* contents onMessage processed, in order
  writeThrew,         \* some serialization or write of the current call threw
  finalized,          \* checkAndClose took its closing branch while active
  cleanupCalls,       \* calls of cleanup() by the current call (saturated)
  lastMsg,            \* the last onMessage invocation: content and chunk events written
  overlap,            \* a second relay call of the same key, accepted while the first is in flight
  status_engines,     \* Hyper.status: engine -> 0, 1, -1
  status_models,      \* Hyper.status_models: model -> 0, 1, -1
  current_best_model, \* Hyper.current_best_model
  check,              \* autoCheck: index of the model whose probe is in flight, 0 when idle
  checkRuns,          \* autoCheck runs that completed
  gcall,              \* the generateResponse call: its locals and what it did
  gcalls,             \* generateResponse calls made
  rateLimitStore,     \* the Map rateLimitStore: key -> [count, resetIn = resetTime - now]
  forwarded,          \* key -> requests the hook let through in the key's window (0: none open)
  hooked,             \* what the preHandler hook did with the last request it saw
  donateFile,         \* donate.json: the stored transcripts, oldest first
  writing,            \* the data of the POST /donate requests whose writeFile is pending
  accepted,           \* the transcripts answered "ok" as stored, in the order of the answers
  donations,          \* POST /donate requests received
  donateReply,        \* the answer to the last POST /donate request that was answered
  remote,             \* the remote end: the module state of generation.js and its stop timers
  runs                \* the remote end: the generations started, in order of their start_generate

gatewayVars == <<sockets, connected_users, emitted, phase, requests, gen, reply,
                 closeEmitted, total_messages, total_message_len, frags, dones,
                 delivered, writeThrew, finalized, cleanupCalls, lastMsg, overlap>>

hyperVars == <<status_engines, status_models, current_best_model, check, checkRuns,
               gcall, gcalls>>

limiterVars == <<rateLimitStore, forwarded, hooked>>

donateVars == <<donateFile, writing, accepted, donations, donateReply>>

remoteVars == <<remote, runs>>

\* what the handlers of the gateway leave alone
otherVars == <<hyperVars, limiterVars, donateVars, remoteVars, overlap>>

vars == <<sockets, connected_users, emitted, phase, requests, gen, reply,
          closeEmitted, total_messages, total_message_len, frags, dones,
          delivered, writeThrew, finalized, cleanupCalls, lastMsg, overlap,
          status_engines, status_models, current_best_model, check, checkRuns,
          gcall, gcalls, rateLimitStore, forwarded, hooked,
          donateFile, writing, accepted, donations, donateReply, remote, runs>>

registryVars == <<sockets, connected_users>>
relayVars == <<phase, requests, gen, reply, closeEmitted, total_messages,
               total_message_len, frags, dones, delivered, writeThrew,
               finalized, cleanupCalls, lastMsg>>

MaxCleanupCalls == 3

IdleGen ==
  [userSocket |-> NoSocket, wantsNonStream |-> FALSE, generationActive |-> FALSE,
   errorCount |-> 0, doneTimeout |-> NoTimer, timeSinceLastMessage |-> 0,
   aggregatedContent |-> <<>>, disconnectTimeout |-> NoTimer,
   connectionErrors |-> 0, listeners |-> {}, timeSinceDone |-> NoTimer,
   timeSinceCeiling |-> NoTimer]

\* no second call.  sent and doneOf are not variables of the code: the
\* fragments the remote end has emitted for the start_generate of each call
\* (1, 2), and the calls for whose start_generate it has emitted done
NoOverlap ==
  [accepted |-> FALSE, gen |-> IdleGen, reply |-> <<>>, finalized |-> FALSE,
   sent |-> [call \in {1, 2} |-> 0], doneOf |-> {}]

NoMsg == [seen |-> FALSE, content |-> EmptyString, pieces |-> <<>>, threw |-> FALSE,
          afterDone |-> FALSE]

\* POST /donate has not been called; donate.json holds file
EmptyLog(file) ==
  /\ donateFile = file
  /\ writing = <<>>
  /\ accepted = file
  /\ donations = 0
  /\ donateReply = "none"

\* the state of the process when it has started
Started ==
  /\ sockets = [s \in Sockets |-> [state |-> "none", query |-> [type |-> "undefined", value |-> <<>>],
                               reason |-> ""]]
  /\ connected_users = <<>>
  /\ emitted = [s \in Sockets |-> <<>>]
  /\ phase = "idle"
  /\ requests = 0
  /\ gen = IdleGen
  /\ reply = <<>>
  /\ closeEmitted = FALSE
  /\ total_messages = 0
  /\ total_message_len = 0
  /\ frags = 0
  /\ dones = 0
  /\ delivered = <<>>
  /\ writeThrew = FALSE
  /\ finalized = FALSE
  /\ cleanupCalls = 0
  /\ lastMsg = NoMsg
  /\ overlap = NoOverlap
  /\ status_engines = [e \in total_apis |-> 0]
  /\ status_models = [m \in {models[i] : i \in ModelIndex} |-> 0]
  /\ current_best_model = NoModel
  /\ check = 0
  /\ checkRuns = 0
  /\ gcall = IdleCall
  /\ gcalls = 0
  /\ rateLimitStore = <<>>
  /\ forwarded = <<>>
  /\ hooked = "none"
  /\ remote = IdleRemote
  /\ runs = <<>>

\* the gateway starts without donate.json
Init == Started /\ EmptyLog(<<>>)

\* the gateway starts with the donate.json an earlier run left: none, or one
\* short of its capacity
InitDonate == Started /\ \E file \in {<<>>, Stored(storedChats - 1)} : EmptyLog(file)

\* ------------------------------------------------------- Session Registry
\* connected_users.has / get / delete / set
has(users, key) == key \in DOMAIN users
delete(users, key) == [k \in DOMAIN users \ {key} |-> users[k]]
set(users, key, info) == [k \in DOMAIN users \cup {key} |-> IF k = key THEN info ELSE users[k]]

\* lookup of §4.1: the channel registered for key, or NoSocket
lookup(key) == IF has(connected_users, key) THEN connected_users[key].socket ELSE NoSocket

\* socket.on("disconnect"): the listener the connection handler installs on
\* every accepted channel; it removes whatever entry its key has
onSocketDisconnect(users, key) == delete(users, key)

ValidKey_anyLength(q) == q.type = "string" /\ q.value # <<>>

ValidKey(q) == q.type = "string" /\ q.value # <<>> /\ Len(q.value) >= MinKeyLen

\* socket.disconnect(true): the channel is closed by the server.  socket.io
\* closes the transport and emits 'disconnect' to the socket's listeners
\* before the call returns, so a listener installed on the socket has run by
\* the time the caller continues (Connect applies it right after this).
disconnect_keepOpen(socks, s) == socks

disconnect(socks, s) ==
  [socks EXCEPT ![s].state = "closed", ![s].reason = "forced server close"]

\* ioSocket.on('connection')
Connect(s, q) ==
  /\ sockets[s].state = "none"
  /\ \A t \in Sockets : t < s => sockets[t].state # "none"
  /\ LET opened == [sockets EXCEPT ![s] = [state |-> "connected", query |-> q,
                                           reason |-> ""]]
     IN IF ~ValidKey(q)
        THEN /\ sockets' = disconnect(opened, s)
             /\ UNCHANGED connected_users
        ELSE LET key == q.value
                 existing == has(connected_users, key)
                             /\ connected_users[key].socket # NoSocket
             IN /\ sockets' = IF existing
                              THEN disconnect(opened, connected_users[key].socket)
                              ELSE opened
                /\ connected_users' =
                     set(IF existing THEN onSocketDisconnect(connected_users, key)
                                     ELSE connected_users,
                         key, [socket |-> s])
  /\ UNCHANGED <<emitted, relayVars>>

\* the channel closes on its own (remote end or transport): 'disconnect' fires
SocketDisconnect(s) ==
  /\ sockets[s].state = "connected"
  /\ sockets' = [sockets EXCEPT ![s].state = "closed", ![s].reason = "transport close"]
  /\ connected_users' = onSocketDisconnect(connected_users, sockets[s].query.value)
  /\ UNCHANGED <<emitted, relayVars>>

\* --------------------------------------------------------- Completion Relay
cleanup_toggle(g) ==
  [g EXCEPT !.generationActive = FALSE,
            !.disconnectTimeout = IF @ = NoTimer THEN DisconnectDelay ELSE NoTimer,
            !.listeners = (g.listeners \ {"message"}) \ {"done"}]

\* cleanup(): closure variables after the call
cleanup(g) ==
  [g EXCEPT !.generationActive = FALSE,
            !.disconnectTimeout = NoTimer,
            !.listeners = (g.listeners \ {"message"}) \ {"done"}]

\* handleDisconnect(reason): clearTimeout, then arm the debounce timer
handleDisconnect(g) == [g EXCEPT !.disconnectTimeout = DisconnectDelay]

\* userSocket.emit(event)
emit(em, s, event) == [em EXCEPT ![s] = Append(@, event)]

Bump(n) == Min(n + 1, MaxCleanupCalls)

\* the relay call is CLOSED: cleanup has run and nothing is attached
Closed == phase = "running" /\ ~gen.generationActive /\ gen.listeners = {}

\* the model follows one relay call from its request on: a request is taken
\* while no accepted call exists
CanAccept == phase \in {"idle", "answered"}

wantsNonStream(stream, nonStream) == stream = "false" \/ nonStream = "true"

Reject_counted(status, payload) ==
  /\ phase' = "answered"
  /\ reply' = <<[type |-> "send", status |-> status, payload |-> payload]>>
  /\ gen' = IdleGen
  /\ total_messages' = total_messages + 1
  /\ UNCHANGED emitted

\* reply.status(status).send(payload); return
Reject(status, payload) ==
  /\ phase' = "answered"
  /\ reply' = <<[type |-> "send", status |-> status, payload |-> payload]>>
  /\ gen' = IdleGen
  /\ UNCHANGED <<emitted, total_messages>>

\* server.post("/v1/chat/completions")
PostChatCompletions(auth, messages, stream, nonStream) ==
  /\ CanAccept
  /\ requests' = requests + 1
  /\ closeEmitted' = FALSE
  /\ frags' = 0
  /\ dones' = 0
  /\ delivered' = <<>>
  /\ writeThrew' = FALSE
  /\ finalized' = FALSE
  /\ cleanupCalls' = 0
  /\ lastMsg' = NoMsg
  /\ IF ~auth.present \/ ~StartsWith(auth.value, Bearer)
     THEN Reject(401, "invalid authorization header")
     ELSE IF messages = "noBody"
     THEN Reject(500, "Internal server error")
     ELSE IF messages \notin {"emptyArray", "array"}
     THEN Reject(400, "invalid messages format")
     ELSE LET userKey == trim(SplitToken(auth.value, 1))
              userSocket == lookup(userKey)
              nonStreamMode == wantsNonStream(stream, nonStream)
          IN IF userSocket = NoSocket
             THEN Reject(401, "no connected frontend for this user. are you using the right key?")
             ELSE /\ phase' = "running"
                  /\ total_messages' = total_messages + 1
                  /\ reply' = IF nonStreamMode THEN <<>> ELSE <<[type |-> "writeHead", status |-> 200]>>
                  /\ emitted' = emit(emitted, userSocket, "start_generate")
                  /\ gen' = [IdleGen EXCEPT !.userSocket = userSocket,
                                            !.wantsNonStream = nonStreamMode,
                                            !.generationActive = TRUE,
                                            !.listeners = {"message", "done"}]
  /\ UNCHANGED <<registryVars, total_message_len>>

\* `data: ${JSON.stringify({choices: [{delta: {content}}]})}\n\n`
ChunkEvent(c) == [type |-> "chunk", content |-> c]
ErrorNotice == [id |-> "[Error processing response - retrying]", len |-> 38]
DoneEvent == [type |-> "done"]     \* 'data: [DONE]\n\n'
EndEvent == [type |-> "end"]       \* reply.raw.end()

RECURSIVE splitWrites_short(_, _, _, _)
splitWrites_short(content, i, n, fail) ==
  IF i < content.len
  THEN (IF n \in fail THEN <<>> ELSE <<ChunkEvent(slice(content, i, i + chunkSize - 1))>>)
       \o splitWrites_short(content, i + chunkSize, n + 1, fail)
  ELSE <<>>

\* the for loop that splits content: the piece at offset i is the n-th write
\* of the handler; a write that throws (n \in fail) is caught and skipped
RECURSIVE splitWrites(_, _, _, _)
splitWrites(content, i, n, fail) ==
  IF i < content.len
  THEN (IF n \in fail THEN <<>> ELSE <<ChunkEvent(slice(content, i, i + chunkSize))>>)
       \o splitWrites(content, i + chunkSize, n + 1, fail)
  ELSE <<>>

aggregate_overwrite(acc, content) == <<content>>

\* aggregatedContent += content
aggregate(acc, content) == Append(acc, content)

\* onMessage(chunk) for an active call and a chunk that is not null:
\* the closure variables, the writes to reply.raw, whether stop_generation
\* is emitted, what is added to total_message_len, whether a write threw
onMessage(g, content, fail) ==
  LET g1 == [g EXCEPT !.timeSinceLastMessage = 0]
      n == g.errorCount + 1
  IN IF g.wantsNonStream
     THEN [gen |-> [g1 EXCEPT !.aggregatedContent = aggregate(@, content)],
           writes |-> <<>>, stop |-> FALSE, added |-> 0, threw |-> FALSE]
     ELSE IF content.len > chunkSize
     THEN [gen |-> g1, writes |-> splitWrites(content, 0, 1, fail), stop |-> FALSE,
           added |-> 0,
           threw |-> \E k \in fail : k <= Len(splitWrites(content, 0, 1, {}))]
     ELSE IF 1 \notin fail
     THEN [gen |-> [g1 EXCEPT !.errorCount = 0],
           writes |-> <<ChunkEvent(Whole(content))>>, stop |-> FALSE,
           added |-> content.len, threw |-> FALSE]
     ELSE IF n >= MAX_ERRORS
     THEN [gen |-> cleanup([g1 EXCEPT !.errorCount = n, !.generationActive = FALSE]),
           writes |-> <<>>, stop |-> TRUE, added |-> 0, threw |-> TRUE]
     ELSE [gen |-> [g1 EXCEPT !.errorCount = n],
           writes |-> IF 2 \in fail THEN <<>> ELSE <<ChunkEvent(Whole(ErrorNotice))>>,
           stop |-> FALSE, added |-> content.len, threw |-> TRUE]

\* the channel emits 'message' and the relay's listener runs
OnMessage(chunk, fail) ==
  /\ phase = "running"
  /\ "message" \in gen.listeners
  /\ sockets[gen.userSocket].state = "connected"
  /\ frags' = frags + 1
  /\ IF gen.generationActive /\ chunk.kind # "null"
     THEN LET r == onMessage(gen, chunk.str, fail)
          IN /\ gen' = r.gen
             /\ reply' = reply \o r.writes
             /\ emitted' = IF r.stop THEN emit(emitted, gen.userSocket, "stop_generation")
                           ELSE emitted
             /\ total_message_len' = total_message_len + r.added
             /\ delivered' = Append(delivered, chunk.str)
             /\ writeThrew' = (writeThrew \/ r.threw)
             /\ cleanupCalls' = IF r.stop THEN Bump(cleanupCalls) ELSE cleanupCalls
             /\ lastMsg' = [seen |-> TRUE, content |-> chunk.str,
                            pieces |-> r.writes, threw |-> r.threw,
                            afterDone |-> dones > 0]
     ELSE UNCHANGED <<gen, reply, emitted, total_message_len, delivered,
                      writeThrew, cleanupCalls, lastMsg>>
  /\ UNCHANGED <<registryVars, phase, requests, closeEmitted, total_messages,
                 dones, finalized>>

onDone_keepTimer(g) ==
  IF g.generationActive
  THEN [g EXCEPT !.doneTimeout = IF @ = NoTimer THEN DoneDelay ELSE @, !.timeSinceDone = 0]
  ELSE cleanup(g)

\* onDone(): arm (or re-arm) the finalize check.  timeSinceDone is not a
\* variable of the code: the time since the call last armed the check from a
\* done event (NoTimer before that)
onDone(g) ==
  IF g.generationActive THEN [g EXCEPT !.doneTimeout = DoneDelay, !.timeSinceDone = 0]
  ELSE cleanup(g)

OnDone ==
  /\ phase = "running"
  /\ "done" \in gen.listeners
  /\ sockets[gen.userSocket].state = "connected"
  /\ dones' = dones + 1
  /\ gen' = onDone(gen)
  /\ cleanupCalls' = IF gen.generationActive THEN cleanupCalls ELSE Bump(cleanupCalls)
  /\ UNCHANGED <<registryVars, emitted, phase, requests, reply, closeEmitted,
                 total_messages, total_message_len, frags, delivered, writeThrew,
                 finalized, lastMsg>>

\* what checkAndClose writes when it closes an active call
finalWrites(g, throws) ==
  IF g.wantsNonStream
  THEN <<[type |-> "json", object |-> "chat.completion", role |-> "assistant",
          content |-> g.aggregatedContent]>>
  ELSE IF throws THEN <<>> ELSE <<DoneEvent, EndEvent>>

checkAndCloseWrites_ungated(g, throws) ==
  IF g.timeSinceLastMessage >= QuietPeriod THEN finalWrites(g, throws) ELSE <<>>

\* checkAndClose(): what the timer callback writes to the response
checkAndCloseWrites(g, throws) ==
  IF g.timeSinceLastMessage >= QuietPeriod /\ g.generationActive
  THEN finalWrites(g, throws)
  ELSE <<>>

checkAndClose_noCleanup(g) ==
  IF g.timeSinceLastMessage >= QuietPeriod
  THEN [g EXCEPT !.doneTimeout = NoTimer]
  ELSE [g EXCEPT !.doneTimeout = DoneDelay - g.timeSinceLastMessage]

\* checkAndClose(): closure variables after the timer callback
checkAndClose(g) ==
  IF g.timeSinceLastMessage >= QuietPeriod
  THEN cleanup([g EXCEPT !.doneTimeout = NoTimer])
  ELSE [g EXCEPT !.doneTimeout = DoneDelay - g.timeSinceLastMessage]

\* doneTimeout fires
DoneTimeoutFires(throws) ==
  /\ gen.doneTimeout = 0
  /\ LET closing == gen.timeSinceLastMessage >= QuietPeriod
     IN /\ gen' = checkAndClose(gen)
        /\ reply' = reply \o checkAndCloseWrites(gen, throws)
        /\ finalized' = (finalized \/ (closing /\ gen.generationActive))
        /\ writeThrew' = (writeThrew \/ (closing /\ gen.generationActive
                                         /\ ~gen.wantsNonStream /\ throws))
        /\ cleanupCalls' = IF closing THEN Bump(cleanupCalls) ELSE cleanupCalls
  /\ UNCHANGED <<registryVars, emitted, phase, requests, closeEmitted,
                 total_messages, total_message_len, frags, dones, delivered, lastMsg>>

confirmDisconnect_keepListening(g) ==
  [g EXCEPT !.generationActive = FALSE, !.disconnectTimeout = NoTimer]

\* the callback of the timer handleDisconnect arms
confirmDisconnect(g) ==
  IF g.generationActive
  THEN cleanup([g EXCEPT !.generationActive = FALSE])
  ELSE [g EXCEPT !.disconnectTimeout = NoTimer]

DisconnectTimeoutFires_ungated ==
  /\ gen.disconnectTimeout = 0
  /\ gen' = confirmDisconnect(gen)
  /\ emitted' = emit(emitted, gen.userSocket, "stop_generation")
  /\ cleanupCalls' = IF gen.generationActive THEN Bump(cleanupCalls) ELSE cleanupCalls
  /\ UNCHANGED <<registryVars, phase, requests, reply, closeEmitted, total_messages,
                 total_message_len, frags, dones, delivered, writeThrew, finalized,
                 lastMsg>>

\* disconnectTimeout fires
DisconnectTimeoutFires ==
  /\ gen.disconnectTimeout = 0
  /\ gen' = confirmDisconnect(gen)
  /\ emitted' = IF gen.generationActive
                THEN emit(emitted, gen.userSocket, "stop_generation") ELSE emitted
  /\ cleanupCalls' = IF gen.generationActive THEN Bump(cleanupCalls) ELSE cleanupCalls
  /\ UNCHANGED <<registryVars, phase, requests, reply, closeEmitted, total_messages,
                 total_message_len, frags, dones, delivered, writeThrew, finalized,
                 lastMsg>>

\* reply.raw.on('close'): the caller went away, or the response has ended
ReplyClose ==
  /\ phase = "running"
  /\ ~closeEmitted
  /\ closeEmitted' = TRUE
  /\ gen' = handleDisconnect(gen)
  /\ UNCHANGED <<registryVars, emitted, phase, requests, reply, total_messages,
                 total_message_len, frags, dones, delivered, writeThrew, finalized,
                 cleanupCalls, lastMsg>>

\* reply.raw.on('error').  timeSinceCeiling is not a variable of the code: the
\* time since connectionErrors reached MAX_CONNECTION_ERRORS (NoTimer before that)
onReplyError(g) ==
  LET g1 == [g EXCEPT !.connectionErrors = @ + 1,
                      !.timeSinceCeiling = IF g.connectionErrors + 1 = MAX_CONNECTION_ERRORS
                                           THEN 0 ELSE @]
  IN IF g1.connectionErrors >= MAX_CONNECTION_ERRORS THEN handleDisconnect(g1) ELSE g1

ReplyError ==
  /\ phase = "running"
  /\ gen' = onReplyError(gen)
  /\ UNCHANGED <<registryVars, emitted, phase, requests, reply, closeEmitted,
                 total_messages, total_message_len, frags, dones, delivered,
                 writeThrew, finalized, cleanupCalls, lastMsg>>

\* time passes, up to the next timer that is due; a due timer fires first
Pending(g) == {t \in {g.doneTimeout, g.disconnectTimeout} : t # NoTimer}
Step(g) == IF \E t \in Pending(g) : t < Tick
           THEN CHOOSE t \in Pending(g) : \A u \in Pending(g) : t <= u
           ELSE Tick
elapse(g, d) ==
  [g EXCEPT !.doneTimeout = IF @ = NoTimer THEN @ ELSE @ - d,
            !.disconnectTimeout = IF @ = NoTimer THEN @ ELSE @ - d,
            !.timeSinceLastMessage = Min(@ + d, QuietPeriod),
            !.timeSinceDone = IF @ = NoTimer THEN @ ELSE Min(@ + d, DoneDelay),
            !.timeSinceCeiling = IF @ = NoTimer THEN @ ELSE Min(@ + d, DisconnectDelay)]

TickClock ==
  /\ phase = "running"
  /\ 0 \notin Pending(gen)
  /\ gen' = elapse(gen, Step(gen))
  /\ UNCHANGED <<registryVars, emitted, phase, requests, reply, closeEmitted,
                 total_messages, total_message_len, frags, dones, delivered,
                 writeThrew, finalized, cleanupCalls, lastMsg>>

\* -------------------------------------------------------------------- Hyper
RECURSIVE Pow2(_)
Pow2(n) == IF n = 0 THEN 1 ELSE 2 * Pow2(n - 1)

retryWithBackoff_waitsAfterLast(outcomes, retries, baseDelay) ==
  LET oks == {i \in 1..retries : outcomes[i].ok}
      calls == IF oks = {} THEN retries ELSE CHOOSE i \in oks : \A j \in oks : i <= j
  IN [ok |-> oks # {}, value |-> outcomes[calls].value, error |-> outcomes[calls].error,
      calls |-> calls,
      waited |-> baseDelay * (Pow2(IF oks = {} THEN calls ELSE calls - 1) - 1)]

\* retryWithBackoff(fn, maxRetries, baseDelay): outcomes[i] is what the i-th
\* call of fn yields.  The value returned or the last error thrown, the calls
\* of fn made, and the time waited between them (baseDelay * 2^i after the
\* i-th failure, except after the last allowed call)
retryWithBackoff(outcomes, retries, baseDelay) ==
  LET oks == {i \in 1..retries : outcomes[i].ok}
      calls == IF oks = {} THEN retries ELSE CHOOSE i \in oks : \A j \in oks : i <= j
  IN [ok |-> oks # {}, value |-> outcomes[calls].value, error |-> outcomes[calls].error,
      calls |-> calls, waited |-> baseDelay * (Pow2(calls - 1) - 1)]

Returns(v) == [ok |-> TRUE, value |-> v, error |-> ""]
Throws(e) == [ok |-> FALSE, value |-> <<>>, error |-> e]

\* checkModel of autoCheck, for one response
checkModel(r) ==
  CASE r.kind = "timeout" -> Throws("Request timeout after 10000ms")
    [] r.kind = "http" -> Throws("HTTP 500")
    [] r.kind = "noChoices" -> Throws("Invalid response structure: missing choices array")
    [] r.kind = "noContent" -> Throws("Invalid response structure: missing message content")
    [] r.kind = "notString" -> Throws("content.toLowerCase is not a function")
    [] r.kind = "content" /\ r.content = <<>> ->
         Throws("Invalid response structure: missing message content")
    [] r.kind = "content" /\ includes(toLowerCase(r.content), TestWord) -> Returns(<<>>)
    [] OTHER -> Throws("Model response validation failed")

\* makeRequest of _generateNonStreamingResponse, for one response
makeRequest(r) ==
  CASE r.kind = "timeout" -> Throws("Request timeout after 30000ms")
    [] r.kind = "http" -> Throws("HTTP 500")
    [] r.kind = "noChoices" -> Throws("Invalid response structure: missing choices array")
    [] r.kind \in {"noContent", "notString"} ->
         Throws("Invalid response structure: missing or invalid message content")
    [] OTHER -> Returns(r.content)

\* the model has an engine and the engine has an endpoint
validConfig(m) == m \in DOMAIN conversion /\ conversion[m] \in endpoints

\* getAvailableModels()
getAvailableModels(sm) ==
  LET Up(m) == m \in DOMAIN sm /\ sm[m] = 1 IN SelectSeq(models, Up)

\* one iteration of the loop of autoCheck, for the responses its requests get:
\* the status maps afterwards
autoCheckModel_engineKept(S, m, responses) ==
  IF ~validConfig(m)
  THEN [S EXCEPT !.models = set(S.models, m, -1)]
  ELSE LET r == retryWithBackoff([i \in 1..checkRetries |-> checkModel(responses[i])],
                                 checkRetries, checkRetryDelay)
       IN IF r.ok
          THEN [engines |-> set(S.engines, conversion[m], 1), models |-> set(S.models, m, 1)]
          ELSE [engines |-> S.engines, models |-> set(S.models, m, -1)]

autoCheckModel(S, m, responses) ==
  IF ~validConfig(m)
  THEN [S EXCEPT !.models = set(S.models, m, -1)]
  ELSE LET r == retryWithBackoff([i \in 1..checkRetries |-> checkModel(responses[i])],
                                 checkRetries, checkRetryDelay)
       IN IF r.ok
          THEN [engines |-> set(S.engines, conversion[m], 1), models |-> set(S.models, m, 1)]
          ELSE [engines |-> set(S.engines, conversion[m], -1), models |-> set(S.models, m, -1)]

\* the end of autoCheck: the first model that is up becomes current_best_model
findBest(sm, best) ==
  LET up == getAvailableModels(sm) IN IF up # <<>> THEN up[1] ELSE best

\* autoCheck() is called: the probe of the first model is sent.  The calls on
\* one Hyper instance are made one at a time (as part_001 does, which awaits
\* generateResponse); the locals of a generateResponse call that has ended
\* are gone by then
AutoCheck ==
  /\ check = 0
  /\ gcall.state # "running"
  /\ check' = 1
  /\ gcall' = IdleCall
  /\ UNCHANGED <<status_engines, status_models, current_best_model, checkRuns, gcalls>>

\* the probe of models[check] settles (after its retry, if any); after the
\* last model the run ends with the choice of the best model
ProbeModel(responses) ==
  /\ check \in ModelIndex
  /\ LET S == autoCheckModel([engines |-> status_engines, models |-> status_models],
                             models[check], responses)
     IN /\ status_engines' = S.engines
        /\ status_models' = S.models
        /\ IF check < Len(models)
           THEN /\ check' = check + 1
                /\ UNCHANGED <<current_best_model, checkRuns>>
           ELSE /\ check' = 0
                /\ current_best_model' = findBest(S.models, current_best_model)
                /\ checkRuns' = checkRuns + 1
  /\ UNCHANGED <<gcall, gcalls>>

\* generateResponse(messages, streaming, callback) up to its first request
GenerateResponse(messages, streaming) ==
  /\ gcall.state # "running"
  /\ check = 0
  /\ gcalls' = gcalls + 1
  /\ LET availableModels == getAvailableModels(status_models)
         g == [IdleCall EXCEPT !.streaming = streaming]
     IN gcall' =
          IF messages # "array"
          THEN [g EXCEPT !.state = "failed",
                         !.error = [message |-> "Invalid messages parameter: must be a non-empty array",
                                    last |-> ""]]
          ELSE IF availableModels = <<>>
          THEN [g EXCEPT !.state = "failed",
                         !.error = [message |-> "No available models found. Run autoCheck first or all models are down.",
                                    last |-> ""]]
          ELSE [g EXCEPT !.state = "running", !.availableModels = availableModels, !.i = 1]
  /\ UNCHANGED <<status_engines, status_models, current_best_model, check, checkRuns>>

\* _generateNonStreamingResponse: retryWithBackoff(makeRequest) with the defaults
generateNonStreamingResponse(responses) ==
  retryWithBackoff([i \in 1..maxRetries |-> makeRequest(responses[i])], maxRetries, retryDelay)

\* the body of the for loop over lines, for one line: the arguments the
\* callback is called with
parseLine(line) ==
  IF line.kind = "delta" /\ line.content # <<>> THEN <<line.content>> ELSE <<>>

\* the while loop of _generateStreamingResponse from the n-th read on, with
\* buffer holding the head of an unfinished line: the callback's arguments
RECURSIVE readLoop(_, _, _)
readLoop(reads, n, buffer) ==
  IF n > Len(reads) THEN <<>>
  ELSE LET lines == (IF buffer = NoLine THEN <<>> ELSE <<buffer>>) \o reads[n].lines
           called == [i \in 1..Len(lines) |-> parseLine(lines[i])]
           Cat[i \in 0..Len(lines)] == IF i = 0 THEN <<>> ELSE Cat[i - 1] \o called[i]
       IN Cat[Len(lines)] \o readLoop(reads, n + 1, reads[n].open)

\* _generateStreamingResponse: one request, no retry
generateStreamingResponse_retried(stream) ==
  LET chunks == IF stream.ok THEN readLoop(stream.reads, 1, NoLine) ELSE <<>>
      r == IF ~stream.ok THEN Throws("HTTP 500")
           ELSE IF stream.ends = "error" THEN Throws("network error")
           ELSE IF chunks = <<>> THEN Throws("Stream ended without receiving any content")
           ELSE Returns(<<>>)
  IN [ok |-> r.ok, value |-> r.value, error |-> r.error,
      calls |-> IF r.ok THEN 1 ELSE maxRetries, chunks |-> chunks]

generateStreamingResponse(stream) ==
  LET chunks == IF stream.ok THEN readLoop(stream.reads, 1, NoLine) ELSE <<>>
      r == IF ~stream.ok THEN Throws("HTTP 500")
           ELSE IF stream.ends = "error" THEN Throws("network error")
           ELSE IF chunks = <<>> THEN Throws("Stream ended without receiving any content")
           ELSE Returns(<<>>)
  IN [ok |-> r.ok, value |-> r.value, error |-> r.error, calls |-> 1, chunks |-> chunks]

\* the catch block of generateResponse: the model is marked down and
\* current_best_model becomes the first model still up, or empty
markFailed_keepBest(H, m) ==
  LET sm == set(H.models, m, -1)
  IN [models |-> sm, best |-> H.best]

markFailed_notDown(H, m) ==
  LET remaining == getAvailableModels(H.models)
  IN [models |-> H.models, best |-> IF remaining # <<>> THEN remaining[1] ELSE NoModel]

markFailed(H, m) ==
  LET sm == set(H.models, m, -1)
      remaining == getAvailableModels(sm)
  IN [models |-> sm, best |-> IF remaining # <<>> THEN remaining[1] ELSE NoModel]

\* the for loop of generateResponse moves on: to the next model of the list
\* taken at the start, or to the throw after the loop
nextModel(g) ==
  IF g.i < Len(g.availableModels) THEN [g EXCEPT !.i = @ + 1]
  ELSE [g EXCEPT !.state = "failed", !.i = 0,
                 !.error = [message |-> "All available models failed. Last error: ",
                            last |-> IF g.lastError = "null" THEN "Unknown error"
                                     ELSE g.lastError]]

Attempt_engineDown(r, type) ==
  /\ gcall.state = "running"
  /\ LET model == gcall.availableModels[gcall.i]
     IN IF ~validConfig(model)
        THEN /\ gcall' = nextModel(gcall)
             /\ UNCHANGED <<status_engines, status_models, current_best_model>>
        ELSE LET g == [gcall EXCEPT !.contacted = Append(@, model),
                                    !.httpRequests = r.calls,
                                    !.onChunk = IF gcall.streaming THEN r.chunks ELSE <<>>,
                                    !.sources = IF gcall.streaming /\ r.chunks # <<>>
                                                THEN Append(@, model) ELSE @]
             IN IF r.ok
                THEN /\ gcall' = [g EXCEPT !.state = "returned", !.i = 0,
                                           !.result = [model |-> model, type |-> type,
                                                       value |-> r.value]]
                     /\ UNCHANGED <<status_engines, status_models, current_best_model>>
                ELSE LET H == markFailed([models |-> status_models,
                                          best |-> current_best_model], model)
                     IN /\ gcall' = nextModel([g EXCEPT !.lastError = r.error])
                        /\ status_models' = H.models
                        /\ current_best_model' = H.best
                        /\ status_engines' = set(status_engines, conversion[model], -1)
  /\ UNCHANGED <<check, checkRuns, gcalls>>

\* one iteration of the for loop of generateResponse: the request(s) to
\* availableModels[i] settle with outcome r
Attempt(r, type) ==
  /\ gcall.state = "running"
  /\ LET model == gcall.availableModels[gcall.i]
     IN IF ~validConfig(model)
        THEN /\ gcall' = nextModel(gcall)
             /\ UNCHANGED <<status_models, current_best_model>>
        ELSE LET g == [gcall EXCEPT !.contacted = Append(@, model),
                                    !.httpRequests = r.calls,
                                    !.onChunk = IF gcall.streaming THEN r.chunks ELSE <<>>,
                                    !.sources = IF gcall.streaming /\ r.chunks # <<>>
                                                THEN Append(@, model) ELSE @]
             IN IF r.ok
                THEN /\ gcall' = [g EXCEPT !.state = "returned", !.i = 0,
                                           !.result = [model |-> model, type |-> type,
                                                       value |-> r.value]]
                     /\ UNCHANGED <<status_models, current_best_model>>
                ELSE LET H == markFailed([models |-> status_models,
                                          best |-> current_best_model], model)
                     IN /\ gcall' = nextModel([g EXCEPT !.lastError = r.error])
                        /\ status_models' = H.models
                        /\ current_best_model' = H.best
  /\ UNCHANGED <<status_engines, check, checkRuns, gcalls>>

AttemptNonStreaming(responses) ==
  /\ ~gcall.streaming
  /\ Attempt(generateNonStreamingResponse(responses), "string")

AttemptStreaming(stream) ==
  /\ gcall.streaming
  /\ Attempt(generateStreamingResponse(stream), "undefined")

\* the responses a retried request gets: failures, then a last response
\* (the rest of the sequence, all timeouts, is read only if that one fails too)
FailedFirst == <<[kind |-> "timeout", content |-> <<>>], [kind |-> "http", content |-> <<>>]>>
RetryInputs(n) ==
  {[i \in 1..n |-> IF i <= k THEN FailedFirst[i] ELSE IF i = k + 1 THEN r ELSE FailedFirst[1]] :
     k \in 0..Min(n - 1, Len(FailedFirst)), r \in Responses}

\* generateResponse(messages, ...): messages by shape
MessagesArgs == {"undefined", "emptyArray", "array"}

\* the failover engine: probe runs and generate calls of one Hyper instance
NextHyper ==
  \/ /\ checkRuns < MaxCheckRuns
     /\ AutoCheck
     /\ UNCHANGED <<gatewayVars, limiterVars, donateVars, remoteVars>>
  \/ /\ \E responses \in RetryInputs(checkRetries) : ProbeModel(responses)
     /\ UNCHANGED <<gatewayVars, limiterVars, donateVars, remoteVars>>
  \/ /\ gcalls < MaxGenerateCalls
     /\ \E messages \in MessagesArgs, streaming \in BOOLEAN : GenerateResponse(messages, streaming)
     /\ UNCHANGED <<gatewayVars, limiterVars, donateVars, remoteVars>>
  \/ /\ \E responses \in RetryInputs(maxRetries) : AttemptNonStreaming(responses)
     /\ UNCHANGED <<gatewayVars, limiterVars, donateVars, remoteVars>>
  \/ /\ \E stream \in Streams : AttemptStreaming(stream)
     /\ UNCHANGED <<gatewayVars, limiterVars, donateVars, remoteVars>>

SpecHyper == Init /\ [][NextHyper]_vars

\* ------------------------------------------------------------ Rate Limiter
\* request.ip || request.headers['x-forwarded-for'] || 'unknown'
identifier(request) ==
  IF request.ip # <<>> THEN request.ip
  ELSE IF request.forwardedFor # <<>> THEN request.forwardedFor
  ELSE <<"u", "n", "k", "n", "o", "w", "n">>

\* `${identifier}:${request.url}`
rateKey(request) == identifier(request) \o <<":">> \o request.url

\* skipPaths.some(path => request.url.startsWith(path))
skipped(request) == \E path \in skipPaths : StartsWith(request.url, path)

\* the hook rateLimit(maxRequests, windowMs, skipPaths) returns, for a request
\* that is not skipped: the store afterwards, and whether 429 was sent
rateLimit_offByOne(store, request) ==
  LET key == rateKey(request)
  IN IF ~has(store, key)
     THEN [store |-> set(store, key, [count |-> 1, resetIn |-> windowMs]), sent429 |-> FALSE]
     ELSE IF store[key].resetIn < 0
     THEN [store |-> set(store, key, [count |-> 1, resetIn |-> windowMs]), sent429 |-> FALSE]
     ELSE LET record == [store[key] EXCEPT !.count = @ + 1]
          IN [store |-> set(store, key, record), sent429 |-> record.count > maxRequests + 1]

rateLimit(store, request) ==
  LET key == rateKey(request)
  IN IF ~has(store, key)
     THEN [store |-> set(store, key, [count |-> 1, resetIn |-> windowMs]), sent429 |-> FALSE]
     ELSE IF store[key].resetIn < 0
     THEN [store |-> set(store, key, [count |-> 1, resetIn |-> windowMs]), sent429 |-> FALSE]
     ELSE LET record == [store[key] EXCEPT !.count = @ + 1]
          IN [store |-> set(store, key, record), sent429 |-> record.count > maxRequests]

\* the key has a record whose window has not elapsed
InWindow(store, key) == has(store, key) /\ store[key].resetIn >= 0

\* the preHandler hook runs for a request
PreHandler(request) ==
  LET key == rateKey(request)
  IN IF skipped(request)
     THEN /\ hooked' = "skipped"
          /\ UNCHANGED <<rateLimitStore, forwarded>>
     ELSE LET r == rateLimit(rateLimitStore, request)
              before == IF InWindow(rateLimitStore, key) THEN forwarded[key] ELSE 0
          IN /\ rateLimitStore' = r.store
             /\ forwarded' = set(forwarded, key, IF r.sent429 THEN before ELSE before + 1)
             /\ hooked' = IF r.sent429 THEN "429" ELSE "forwarded"

sweep_atResetTime(store) ==
  [k \in {j \in DOMAIN store : ~(store[j].resetIn <= 0)} |-> store[k]]

\* the setInterval callback: records whose window has elapsed are deleted
sweep(store) == [k \in {j \in DOMAIN store : ~(store[j].resetIn < 0)} |-> store[k]]

Sweep ==
  /\ rateLimitStore' = sweep(rateLimitStore)
  /\ rateLimitStore' # rateLimitStore
  /\ UNCHANGED <<forwarded, hooked>>

\* the records RateTick ms later: Date.now() has grown, resetTime has not
later(store) ==
  [k \in DOMAIN store |->
     [store[k] EXCEPT !.resetIn = IF @ - RateTick < 0 THEN Elapsed ELSE @ - RateTick]]

\* RateTick ms pass
LimiterTick ==
  /\ \E k \in DOMAIN rateLimitStore : rateLimitStore[k].resetIn >= 0
  /\ rateLimitStore' = later(rateLimitStore)
  /\ forwarded' = [k \in DOMAIN forwarded |->
                     IF InWindow(rateLimitStore', k) THEN forwarded[k] ELSE 0]
  /\ UNCHANGED hooked

\* the rate limiter: requests of two keys and of two exempt paths
NextLimiter ==
  \/ /\ \E request \in HookRequests :
          /\ InWindow(rateLimitStore, rateKey(request))
             => rateLimitStore[rateKey(request)].count < MaxWindowRequests
          /\ PreHandler(request)
     /\ UNCHANGED <<gatewayVars, hyperVars, donateVars, remoteVars>>
  \/ /\ Sweep
     /\ UNCHANGED <<gatewayVars, hyperVars, donateVars, remoteVars>>
  \/ /\ LimiterTick
     /\ UNCHANGED <<gatewayVars, hyperVars, donateVars, remoteVars>>

SpecLimiter == Init /\ [][NextLimiter]_vars

\* ---------------------------------------------------------------- Dedup Log
\* similarity values are fractions [n, d]
Plus(a, b) == [n |-> a.n * b.d + b.n * a.d, d |-> a.d * b.d]
Greater(a, b) == a.n * b.d > b.n * a.d
AtLeast(a, b) == a.n * b.d >= b.n * a.d
One == [n |-> 1, d |-> 1]
Zero == [n |-> 0, d |-> 1]

\* .replace(/\s+/g, ' ')
RECURSIVE collapseSpaces(_)
collapseSpaces(s) ==
  IF s = <<>> THEN <<>>
  ELSE IF s[1] \in Whitespace
  THEN IF Len(s) > 1 /\ s[2] \in Whitespace THEN collapseSpaces(Tail(s))
       ELSE <<" ">> \o collapseSpaces(Tail(s))
  ELSE <<s[1]>> \o collapseSpaces(Tail(s))

\* .replace(/[^\w\s]/g, '')
removeSpecial(s) == LET Kept(c) == c \notin Punctuation IN SelectSeq(s, Kept)

\* normalizeMessageContent(message)
normalizeMessageContent(message) ==
  IF message.kind # "object" THEN <<>>
  ELSE LET n == removeSpecial(collapseSpaces(toLowerCase(trim(message.content))))
       IN SubSeq(n, 1, Min(Len(n), normalizedLength))

\* calculateStringSimilarity(str1, str2)
calculateStringSimilarity(str1, str2) ==
  IF str1 = str2 THEN One
  ELSE IF str1 = <<>> \/ str2 = <<>> THEN Zero
  ELSE LET len1 == Len(str1)
           len2 == Len(str2)
           maxLen == IF len1 >= len2 THEN len1 ELSE len2
           minLen == Min(len1, len2)
           matches == Cardinality({i \in 1..minLen : str1[i] = str2[i]})
           longer == IF len1 > len2 THEN str1 ELSE str2
           shorter == IF len1 > len2 THEN str2 ELSE str1
           ratio == [n |-> matches, d |-> maxLen]
       IN IF includes(longer, shorter) /\ Len(shorter) > substringMinLength
          THEN IF AtLeast(ratio, substringFloor) THEN ratio ELSE substringFloor
          ELSE ratio

\* the for loop of calculateMessagesSimilarity from message i on: what it
\* adds to similarityScore
RECURSIVE scoreFrom(_, _, _, _)
scoreFrom(messages1, messages2, i, compareLength) ==
  IF i > compareLength THEN Zero
  ELSE LET norm1 == normalizeMessageContent(messages1[i])
           norm2 == normalizeMessageContent(messages2[i])
           similarity == calculateStringSimilarity(norm1, norm2)
           added == IF norm1 = norm2 THEN One
                    ELSE IF norm1 # <<>> /\ norm2 # <<>> /\ Greater(similarity, messageThreshold)
                    THEN similarity
                    ELSE Zero
       IN Plus(added, scoreFrom(messages1, messages2, i + 1, compareLength))

\* a similarity value: a fraction, or NaN (0 / 0)
Value(f) == [nan |-> FALSE, n |-> f.n, d |-> f.d]
NaN == [nan |-> TRUE, n |-> 0, d |-> 1]

calculateMessagesSimilarity_ungated(messages1, messages2) ==
  LET len1 == Len(messages1)
      len2 == Len(messages2)
      compareLength == Min(Min(len1, len2), comparedMessages)
      score == scoreFrom(messages1, messages2, 1, compareLength)
  IN IF compareLength = 0 THEN NaN
     ELSE Value([n |-> score.n, d |-> score.d * compareLength])

\* calculateMessagesSimilarity(messages1, messages2).  The gate compares
\* |len1 - len2| with max * 0.3, which in doubles is 10 * |len1 - len2| > 3 * max
\* (0.3 * 10k rounds to 3k); with no message to compare the quotient is 0 / 0
calculateMessagesSimilarity(messages1, messages2) ==
  LET len1 == Len(messages1)
      len2 == Len(messages2)
      diff == IF len1 >= len2 THEN len1 - len2 ELSE len2 - len1
      maxLen == IF len1 >= len2 THEN len1 ELSE len2
      compareLength == Min(Min(len1, len2), comparedMessages)
      score == scoreFrom(messages1, messages2, 1, compareLength)
  IN IF 10 * diff > 3 * maxLen THEN Value(Zero)
     ELSE IF compareLength = 0 THEN NaN
     ELSE Value([n |-> score.n, d |-> score.d * compareLength])

\* calculateMessagesSimilarity(messages1, messages2) >= similarityThreshold;
\* NaN >= 0.90 is false
similar(messages1, messages2) ==
  LET similarity == calculateMessagesSimilarity(messages1, messages2)
  IN ~similarity.nan /\ AtLeast(similarity, similarityThreshold)

\* array.slice(-n) and array.slice(0, n)
lastOf(array, n) == SubSeq(array, IF Len(array) > n THEN Len(array) - n + 1 ELSE 1, Len(array))
firstOf(array, n) == SubSeq(array, 1, Min(Len(array), n))

\* recentChats.some(...)
isDuplicate(messages, data) ==
  LET recentChats == lastOf(data, recentCheckLimit)
  IN \E j \in 1..Len(recentChats) : similar(messages, recentChats[j])

\* data after the push and the cut to the most recent 1000
pushed(messages, data) ==
  LET appended == Append(data, firstOf(messages, storedMessages))
  IN IF Len(appended) > storedChats THEN lastOf(appended, storedChats) ELSE appended

\* POST /donate up to its writeFile: the request is refused (400), or
\* donate.json is read and the transcript is skipped as a duplicate, or the
\* write of the new data is started
Donate(body) ==
  /\ donations' = donations + 1
  /\ IF ~body.isArray
     THEN /\ donateReply' = "400"
          /\ UNCHANGED <<donateFile, writing, accepted>>
     ELSE IF isDuplicate(body.messages, donateFile)
     THEN /\ donateReply' = "duplicate skipped"
          /\ UNCHANGED <<donateFile, writing, accepted>>
     ELSE /\ writing' = Append(writing, pushed(body.messages, donateFile))
          /\ UNCHANGED <<donateFile, accepted, donateReply>>

\* the writeFile of a pending request completes and the request is answered
DonateWritten(i) ==
  /\ i \in 1..Len(writing)
  /\ donateFile' = writing[i]
  /\ writing' = [j \in 1..(Len(writing) - 1) |-> IF j < i THEN writing[j] ELSE writing[j + 1]]
  /\ accepted' = Append(accepted, writing[i][Len(writing[i])])
  /\ donateReply' = "ok"
  /\ UNCHANGED donations

\* the dedup log: submissions, whose reads and writes may interleave
NextDonate ==
  \/ /\ donations < MaxDonations
     /\ Len(writing) < MaxInFlight
     /\ \E body \in DonateBodies : Donate(body)
     /\ UNCHANGED <<gatewayVars, hyperVars, limiterVars, remoteVars>>
  \/ /\ \E i \in 1..MaxInFlight : DonateWritten(i)
     /\ UNCHANGED <<gatewayVars, hyperVars, limiterVars, remoteVars>>

SpecDonate == InitDonate /\ [][NextDonate]_vars

\* --------------------------------------------------------------- Remote End
\* handleEmit(chunk), with the state of the show-reasoning box: the module
\* state afterwards and the events emitted
handleEmit(M, chunk, showreasoning) ==
  IF chunk.empty THEN [mod |-> M, out |-> <<>>]
  ELSE IF showreasoning THEN [mod |-> M, out |-> <<Generated>>]
  ELSE IF chunk.tag = "open"
  THEN [mod |-> [M EXCEPT !.inThinkingMode = TRUE],
        out |-> (IF chunk.rest THEN <<Generated>> ELSE <<>>) \o <<Generated>>]
  ELSE IF chunk.tag = "close"
  THEN [mod |-> [M EXCEPT !.inThinkingMode = FALSE],
        out |-> <<Generated>> \o (IF chunk.rest THEN <<Generated>> ELSE <<>>)]
  ELSE IF M.inThinkingMode
  THEN [mod |-> M, out |-> IF chunk.dot \/ chunk.fills THEN <<Generated>> ELSE <<>>]
  ELSE [mod |-> M, out |-> <<Generated>>]

\* onFinish(finalMessage)
onFinish(M) ==
  [mod |-> [M EXCEPT !.currentGeneration = 0, !.generationStopped = FALSE],
   out |-> IF M.generationStopped THEN <<>> ELSE <<DoneSignal>>]

\* a run of an engine function: the engine, the shape of its messages, the
\* await it is suspended at (or returned / rejected), the attempt of
\* Yuzu (AUTO), the chunks it has handled, whether its fetch was aborted, and
\* what it has emitted
NewRun(type, shape) ==
  [engine |-> type, shape |-> shape, pc |-> "returned", attempt |-> 0, steps |-> 0,
   aborted |-> FALSE, emits |-> <<>>]

\* the run goes on at pc with the module state M
At(M, run, pc) == [mod |-> M, run |-> [run EXCEPT !.pc = pc]]
Say(X, chunk, showreasoning) ==
  LET h == handleEmit(X.mod, chunk, showreasoning)
  IN [mod |-> h.mod, run |-> [X.run EXCEPT !.emits = @ \o h.out]]
\* window.socket.emit('message', text)
SocketEmit(X, text) == [X EXCEPT !.run.emits = Append(@, MessageEvent(text))]
Finish(X) ==
  LET f == onFinish(X.mod)
  IN [mod |-> f.mod, run |-> [X.run EXCEPT !.pc = "returned", !.emits = @ \o f.out]]
\* currentGeneration = the controller (or completion) of run id
Current(X, id) == [X EXCEPT !.mod.currentGeneration = id]

\* preprocessMessages reads messages[0]["content"]: it throws on an empty array
preprocessThrows(shape) == shape = "emptyArray"

\* streamingGenerating up to its first await (ready: window.webllmEngine is loaded)
streamingGenerating(M, run, ready) ==
  IF M.generationStopped THEN At(M, run, "returned")
  ELSE IF preprocessThrows(run.shape) \/ ~ready THEN At(M, run, "rejected")
  ELSE At(M, run, "create")

\* streamingGeneratingPollinations up to its fetch
streamingGeneratingPollinations(M, run, id) ==
  IF M.generationStopped THEN At(M, run, "returned")
  ELSE IF preprocessThrows(run.shape) THEN At(M, run, "rejected")
  ELSE Current(At(M, run, "fetch"), id)

\* streamingGeneratingYuzu up to its await of yuzuClient.generateStreaming; the
\* attempt is 0 for Yuzu, 1 and 2 for the two calls Yuzu (AUTO) makes
streamingGeneratingYuzu(M, run, id, attempt) ==
  IF M.generationStopped THEN At(M, run, "returned")
  ELSE IF preprocessThrows(run.shape) THEN At(M, run, "rejected")
  ELSE Current(At(M, [run EXCEPT !.attempt = attempt], "callback"), id)

\* streamingGeneratingYuzuAuto up to its await of router
streamingGeneratingYuzuAuto(M, run) ==
  IF M.generationStopped THEN At(M, run, "returned") ELSE At(M, run, "router")

\* the try block of streamingGeneratingYuzuAuto after router has answered:
\* a throw of the first call is caught and the call is made again
yuzuAutoTry(M, run, id) ==
  LET first == streamingGeneratingYuzu(M, run, id, 1)
  IN IF first.run.pc = "rejected" THEN streamingGeneratingYuzu(M, run, id, 2) ELSE first

\* streamingGeneratingHyper up to its await of generateResponse (ready:
\* window.hyperInstance is set)
streamingGeneratingHyper(M, run, id, ready, page) ==
  IF M.generationStopped THEN At(M, run, "returned")
  ELSE IF ~ready
  THEN Finish(Say(At(M, run, "returned"), HyperNotInitialized(page.fills), page.showreasoning))
  ELSE IF preprocessThrows(run.shape) THEN At(M, run, "rejected")
  ELSE Say(Current(At(M, run, "callback"), id), UsingModel(page.fills), page.showreasoning)

\* the catch block of streamingGeneratingCustomEngine
customCatch(X) == Finish(SocketEmit(X, "Error with custom engine"))

\* streamingGeneratingCustomEngine up to its fetch (ready: the endpoint and
\* the model are configured)
streamingGeneratingCustomEngine(M, run, id, ready) ==
  IF M.generationStopped THEN At(M, run, "returned")
  ELSE IF preprocessThrows(run.shape) THEN At(M, run, "rejected")
  ELSE IF ~ready
  THEN Finish(SocketEmit(At(M, run, "returned"), "Error: Custom engine not configured"))
  ELSE Current(At(M, run, "fetch"), id)

\* socket.on('start_generate'): the engine function is called and runs up to
\* its first await; an unknown engine is answered with an error message and done
startGenerate(M, id, type, shape, ready, page) ==
  LET run == NewRun(type, shape)
  IN CASE type = "WebLLM (Local AI)" -> streamingGenerating(M, run, ready)
       [] type = "Pollinations (Cloud AI)" -> streamingGeneratingPollinations(M, run, id)
       [] type = "Yuzu (Cloud AI)" -> streamingGeneratingYuzu(M, run, id, 0)
       [] type = "Yuzu (AUTO)" -> streamingGeneratingYuzuAuto(M, run)
       [] type = "Hyper (Auto)" -> streamingGeneratingHyper(M, run, id, ready, page)
       [] type = "Custom Engine" -> streamingGeneratingCustomEngine(M, run, id, ready)
       [] OTHER -> [mod |-> M, run |-> [run EXCEPT !.emits = <<MessageEvent("Error: Unknown engine type"), DoneSignal>>]]

\* what an engine's stream yields to the remote end.  An item of the WebLLM
\* completion; a data line of an event stream: a delta with content, [DONE],
\* text that is not JSON but holds "content":"...", anything else
IterateItems ==
  {[kind |-> "chunk", chunk |-> c] : c \in HandleChunks}
  \cup {[kind |-> k, chunk |-> NoPiece] : k \in {"end", "throws"}}
Delta(c) == [kind |-> "delta", chunk |-> c]
DoneData == [kind |-> "done", chunk |-> NoPiece]
Recoverable == [kind |-> "recover", chunk |-> Hello]
NotData == [kind |-> "other", chunk |-> NoPiece]

\* what reader.read() settles with: the lines completed by this read
RemoteReads ==
  {[kind |-> "rejected", lines |-> <<>>], [kind |-> "done", lines |-> <<>>]}
  \cup {[kind |-> "value", lines |-> ls] :
          ls \in {<<>>, <<NotData, Recoverable>>, <<DoneData, Delta(Hello)>>}
                 \cup {<<Delta(c)>> : c \in HandleChunks}
                 \cup {<<Delta(c), DoneData>> : c \in HandleChunks}}

FetchResponses == {"rejected", "ok", "notOk"}

\* the state of the page when handleEmit runs: the show-reasoning box, and
\* whether the length of genned is a multiple of 50 after a literal is added
Pages == [showreasoning : BOOLEAN, fills : BOOLEAN]

\* the loops over the lines of one read, from line i on (the engine is not
\* stopped): [DONE] finishes the run and the rest is not looked at
RECURSIVE processLines(_, _, _, _)
processLines(X, lines, i, showreasoning) ==
  IF i > Len(lines) THEN X
  ELSE CASE lines[i].kind = "done" -> Finish(X)
         [] lines[i].kind = "delta" ->
              processLines(Say(X, lines[i].chunk, showreasoning), lines, i + 1, showreasoning)
         [] lines[i].kind = "recover" /\ X.run.engine = "Pollinations (Cloud AI)" ->
              processLines(Say(X, lines[i].chunk, showreasoning), lines, i + 1, showreasoning)
         [] OTHER -> processLines(X, lines, i + 1, showreasoning)

\* the top of the while (true) loop: a stopped run cancels its reader and returns
loopTop(X) == IF X.mod.generationStopped THEN [X EXCEPT !.run.pc = "returned"] ELSE X

\* stopGeneration(): abort() rejects the fetch or read the run of
\* currentGeneration is waiting for, when that run passed its controller's
\* signal to fetch
Abortable(run) ==
  /\ run.engine \in {"Pollinations (Cloud AI)", "Custom Engine"}
  /\ run.pc \in {"fetch", "text", "read"}
stopGeneration(M, rs) ==
  IF M.generationStopped THEN [mod |-> M, runs |-> rs]
  ELSE [mod |-> [M EXCEPT !.generationStopped = TRUE, !.inThinkingMode = FALSE,
                          !.currentGeneration = 0],
        runs |-> [r \in DOMAIN rs |->
                    IF r = M.currentGeneration /\ Abortable(rs[r])
                    THEN [rs[r] EXCEPT !.aborted = TRUE] ELSE rs[r]]]

\* an engine function that has ended leaves nothing but what it emitted
Ended(run) == run.pc \in {"returned", "rejected"}
Settled(run) ==
  IF Ended(run) THEN [NewRun("", "") EXCEPT !.pc = run.pc, !.emits = run.emits] ELSE run
Running == {r \in DOMAIN runs : ~Ended(runs[r])}

Commit(r, X) ==
  /\ remote' = X.mod
  /\ runs' = [runs EXCEPT ![r] = Settled(X.run)]
Suspended(r, pc) == r \in DOMAIN runs /\ runs[r].pc = pc
Here(r) == [mod |-> remote, run |-> runs[r]]
Stepped(X) == [X EXCEPT !.run.steps = @ + 1]

\* the channel delivers start_generate
StartGenerate(type, shape, ready, page) ==
  LET X == startGenerate(remote, Len(runs) + 1, type, shape, ready, page)
  IN /\ remote' = X.mod
     /\ runs' = Append(runs, Settled(X.run))

\* router(messages, yuzuClient) has answered (it catches its own errors)
RouterSettles(r) ==
  /\ Suspended(r, "router")
  /\ Commit(r, yuzuAutoTry(remote, runs[r], r))

\* engine.chat.completions.create settles
CreateSettles(r, ok) ==
  /\ Suspended(r, "create")
  /\ Commit(r, IF ok THEN Current(At(remote, runs[r], "iterate"), r)
               ELSE At(remote, runs[r], "rejected"))

\* the completion yields its next item, ends or throws
IterateYields(r, item, showreasoning) ==
  /\ Suspended(r, "iterate")
  /\ Commit(r, CASE item.kind = "throws" -> At(remote, runs[r], "rejected")
                 [] item.kind = "end" -> Finish(Here(r))
                 [] OTHER -> IF remote.generationStopped THEN Finish(Here(r))
                             ELSE Stepped(Say(Here(r), item.chunk, showreasoning)))

\* fetch settles (Pollinations and the custom engine)
FetchSettles(r, response) ==
  /\ Suspended(r, "fetch")
  /\ runs[r].aborted => response = "rejected"
  /\ Commit(r, IF runs[r].engine = "Custom Engine"
               THEN CASE response = "rejected" -> customCatch(Here(r))
                      [] response = "notOk" -> At(remote, runs[r], "text")
                      [] OTHER -> loopTop(At(remote, runs[r], "read"))
               ELSE IF response = "rejected" THEN At(remote, runs[r], "rejected")
               ELSE loopTop(At(remote, runs[r], "read")))

\* response.text() of the custom engine's error response settles: the error
\* is reported either way
TextSettles(r, ok) ==
  /\ Suspended(r, "text")
  /\ runs[r].aborted => ~ok
  /\ Commit(r, IF ok THEN Finish(SocketEmit(Here(r), "Custom engine API error")) ELSE customCatch(Here(r)))

\* reader.read() settles
ReadSettles(r, read, showreasoning) ==
  /\ Suspended(r, "read")
  /\ runs[r].aborted => read.kind = "rejected"
  /\ Commit(r, CASE read.kind = "rejected" ->
                      IF runs[r].engine = "Custom Engine" THEN customCatch(Here(r))
                      ELSE At(remote, runs[r], "rejected")
                 [] read.kind = "done" -> Finish(Here(r))
                 [] OTHER ->
                      LET X == IF remote.generationStopped THEN Here(r)
                               ELSE processLines(Here(r), read.lines, 1, showreasoning)
                      IN IF X.run.pc = "read" THEN Stepped(loopTop(X)) ELSE X)

\* the callback given to yuzuClient.generateStreaming or to
\* hyperInstance.generateResponse is called with a chunk
CallbackCalled(r, chunk, showreasoning) ==
  /\ Suspended(r, "callback")
  /\ Commit(r, IF remote.generationStopped THEN Stepped(Here(r))
               ELSE Stepped(Say(Here(r), chunk, showreasoning)))

\* yuzuClient.generateStreaming or hyperInstance.generateResponse settles
GenerateSettles(r, ok, page) ==
  /\ Suspended(r, "callback")
  /\ Commit(r, IF ok THEN Finish(Here(r))
               ELSE IF runs[r].engine = "Hyper (Auto)"
               THEN Finish(Say(Here(r), HyperFailed(page.fills), page.showreasoning))
               ELSE IF runs[r].attempt = 1
               THEN streamingGeneratingYuzu(remote, runs[r], r, 2)
               ELSE At(remote, runs[r], "rejected"))

\* socket.on('stop_generation'): the confirmation timer is armed
StopGenerationReceived ==
  /\ remote' = [remote EXCEPT !.stopTimers = @ + 1, !.stops = @ + 1,
                              !.startedBefore = Append(@, Len(runs))]
  /\ UNCHANGED runs

\* a confirmation timer fires, 1000 ms after its stop_generation
StopTimerFires ==
  /\ remote.stopTimers > 0
  /\ LET S == stopGeneration([remote EXCEPT !.stopTimers = @ - 1,
                                            !.startedBefore = Tail(@)], runs)
     IN /\ remote' = S.mod
        /\ runs' = S.runs

\* the remote end: generations of every engine, one after the other
NextRemote ==
  \/ /\ Len(runs) < MaxGenerations
     /\ Cardinality(Running) < MaxRunning
     /\ \E type \in EngineTypes, shape \in StartShapes, ready \in BOOLEAN, page \in Pages :
          StartGenerate(type, shape, ready, page)
     /\ UNCHANGED <<gatewayVars, hyperVars, limiterVars, donateVars>>
  \/ /\ \E r \in 1..MaxGenerations : RouterSettles(r)
     /\ UNCHANGED <<gatewayVars, hyperVars, limiterVars, donateVars>>
  \/ /\ \E r \in 1..MaxGenerations, ok \in BOOLEAN : CreateSettles(r, ok)
     /\ UNCHANGED <<gatewayVars, hyperVars, limiterVars, donateVars>>
  \/ /\ \E r \in 1..MaxGenerations, item \in IterateItems, sr \in BOOLEAN :
          /\ Suspended(r, "iterate")
          /\ item.kind = "chunk" => runs[r].steps < MaxEngineSteps
          /\ IterateYields(r, item, sr)
     /\ UNCHANGED <<gatewayVars, hyperVars, limiterVars, donateVars>>
  \/ /\ \E r \in 1..MaxGenerations, response \in FetchResponses : FetchSettles(r, response)
     /\ UNCHANGED <<gatewayVars, hyperVars, limiterVars, donateVars>>
  \/ /\ \E r \in 1..MaxGenerations, ok \in BOOLEAN : TextSettles(r, ok)
     /\ UNCHANGED <<gatewayVars, hyperVars, limiterVars, donateVars>>
  \/ /\ \E r \in 1..MaxGenerations, read \in RemoteReads, sr \in BOOLEAN :
          /\ Suspended(r, "read")
          /\ read.kind = "value" => runs[r].steps < MaxEngineSteps
          /\ ReadSettles(r, read, sr)
     /\ UNCHANGED <<gatewayVars, hyperVars, limiterVars, donateVars>>
  \/ /\ \E r \in 1..MaxGenerations, chunk \in HandleChunks, sr \in BOOLEAN :
          /\ Suspended(r, "callback")
          /\ runs[r].steps < MaxEngineSteps
          /\ CallbackCalled(r, chunk, sr)
     /\ UNCHANGED <<gatewayVars, hyperVars, limiterVars, donateVars>>
  \/ /\ \E r \in 1..MaxGenerations, ok \in BOOLEAN, page \in Pages : GenerateSettles(r, ok, page)
     /\ UNCHANGED <<gatewayVars, hyperVars, limiterVars, donateVars>>
  \/ /\ remote.stops < MaxStops
     /\ StopGenerationReceived
     /\ UNCHANGED <<gatewayVars, hyperVars, limiterVars, donateVars>>
  \/ /\ StopTimerFires
     /\ UNCHANGED <<gatewayVars, hyperVars, limiterVars, donateVars>>

SpecRemote == Init /\ [][NextRemote]_vars

\* the relay: one registered key, every event of a relay call
RelayHandshakes == {q \in HandshakeKeys : q.type = "string" /\ q.value = KeyA}
RelayAuthHeaders ==
  {h \in AuthHeaders : h.value \in {<<>>, Bearer \o KeyA, Bearer \o KeyB}}
RelayMessagesShapes == {"string", "emptyArray", "array"}

Next ==
  \/ /\ \E s \in 1..MaxRelaySockets, q \in RelayHandshakes : Connect(s, q)
     /\ UNCHANGED otherVars
  \/ /\ \E s \in Sockets : SocketDisconnect(s)
     /\ UNCHANGED otherVars
  \/ /\ requests < MaxRelayRequests
     /\ \E auth \in RelayAuthHeaders, m \in RelayMessagesShapes, st \in Flags, ns \in Flags :
          PostChatCompletions(auth, m, st, ns)
     /\ UNCHANGED otherVars
  \/ /\ frags < MaxFrags
     /\ \E in \in MessageInputs(gen.wantsNonStream) : OnMessage(in[1], in[2])
     /\ UNCHANGED otherVars
  \/ /\ dones < MaxDone
     /\ OnDone
     /\ UNCHANGED otherVars
  \/ /\ \E throws \in BOOLEAN : DoneTimeoutFires(throws)
     /\ UNCHANGED otherVars
  \/ /\ DisconnectTimeoutFires
     /\ UNCHANGED otherVars
  \/ /\ ReplyClose
     /\ UNCHANGED otherVars
  \/ /\ gen.connectionErrors < MaxTransportErrors
     /\ ReplyError
     /\ UNCHANGED otherVars
  \/ /\ TickClock
     /\ UNCHANGED otherVars

Spec == Init /\ [][Next]_vars

\* ------------------------------------------------- overlapping relay calls
\* the fragments the remote end generates for the first and the second call
FragmentOf(call) == IF call = 1 THEN [id |-> "Hel", len |-> 3] ELSE [id |-> "lo!", len |-> 3]

\* the first call has emitted start_generate and its response is open
InFlight == phase = "running" /\ gen.generationActive

\* server.post("/v1/chat/completions") for the key of the call in flight: the
\* key is still registered to the same channel, so the request is accepted,
\* start_generate is emitted a second time and a second pair of listeners is
\* added to the channel
PostOverlapping(stream, nonStream) ==
  /\ InFlight
  /\ ~overlap.accepted
  /\ \E key \in DOMAIN connected_users : connected_users[key].socket = gen.userSocket
  /\ total_messages' = total_messages + 1
  /\ emitted' = emit(emitted, gen.userSocket, "start_generate")
  /\ overlap' = [overlap EXCEPT
                   !.accepted = TRUE,
                   !.reply = IF wantsNonStream(stream, nonStream) THEN <<>>
                             ELSE <<[type |-> "writeHead", status |-> 200]>>,
                   !.gen = [IdleGen EXCEPT !.userSocket = gen.userSocket,
                                           !.wantsNonStream = wantsNonStream(stream, nonStream),
                                           !.generationActive = TRUE,
                                           !.listeners = {"message", "done"}]]
  /\ UNCHANGED <<registryVars, phase, requests, gen, reply, closeEmitted,
                 total_message_len, frags, dones, delivered, writeThrew, finalized,
                 cleanupCalls, lastMsg>>

\* the remote end is generating for the call: its start_generate was emitted
\* and its done has not been
Generating(call) ==
  /\ call \notin overlap.doneOf
  /\ IF call = 1 THEN phase = "running" ELSE overlap.accepted

\* the onMessage of the second call runs for a fragment
overlapMessage(o, content) ==
  IF "message" \in o.gen.listeners /\ o.gen.generationActive
  THEN LET r == onMessage(o.gen, content, {})
       IN [o EXCEPT !.gen = r.gen, !.reply = @ \o r.writes]
  ELSE o

\* the channel emits 'message' with a fragment generated for the call: every
\* onMessage listener on the channel runs, in the order the calls added them
ChannelMessage(call) ==
  /\ Generating(call)
  /\ sockets[gen.userSocket].state = "connected"
  /\ LET chunk == [kind |-> "string", str |-> FragmentOf(call)]
     IN /\ IF "message" \in gen.listeners
           THEN OnMessage(chunk, {})
           ELSE UNCHANGED <<registryVars, relayVars, emitted>>
        /\ overlap' = [overlapMessage(overlap, chunk.str) EXCEPT
                         !.sent[call] = @ + 1]

\* the channel emits 'done' for the call: every onDone listener runs
ChannelDone(call) ==
  /\ Generating(call)
  /\ sockets[gen.userSocket].state = "connected"
  /\ IF "done" \in gen.listeners
     THEN OnDone
     ELSE UNCHANGED <<registryVars, relayVars, emitted>>
  /\ overlap' = [overlap EXCEPT
                   !.doneOf = @ \cup {call},
                   !.gen = IF "done" \in @.listeners THEN onDone(@) ELSE @]

\* doneTimeout of the second call fires
OverlapDoneTimeoutFires ==
  /\ overlap.gen.doneTimeout = 0
  /\ overlap' = [overlap EXCEPT
                   !.gen = checkAndClose(@),
                   !.reply = @ \o checkAndCloseWrites(overlap.gen, FALSE),
                   !.finalized = @ \/ (overlap.gen.timeSinceLastMessage >= QuietPeriod
                                       /\ overlap.gen.generationActive)]
  /\ UNCHANGED <<registryVars, relayVars, emitted>>

\* time passes for both calls, up to the next timer that is due
OverlapTick ==
  /\ phase = "running"
  /\ 0 \notin Pending(gen) \cup Pending(overlap.gen)
  /\ Pending(gen) \cup Pending(overlap.gen) # {}
  /\ LET d == Min(Step(gen), Step(overlap.gen))
     IN /\ gen' = elapse(gen, d)
        /\ overlap' = [overlap EXCEPT !.gen = elapse(@, d)]
  /\ UNCHANGED <<registryVars, emitted, phase, requests, reply, closeEmitted,
                 total_messages, total_message_len, frags, dones, delivered,
                 writeThrew, finalized, cleanupCalls, lastMsg>>

\* two relay calls of one key on one channel: the events of the channel and
\* the finalize timers of both calls
NextOverlap ==
  \/ /\ \E q \in RelayHandshakes : Connect(1, q)
     /\ UNCHANGED otherVars
  \/ /\ requests < MaxRelayRequests
     /\ \E ns \in {"undefined", "true"} :
          PostChatCompletions([present |-> TRUE, value |-> Bearer \o KeyA], "array",
                              "undefined", ns)
     /\ UNCHANGED otherVars
  \/ /\ \E ns \in {"undefined", "true"} : PostOverlapping("undefined", ns)
     /\ UNCHANGED <<hyperVars, limiterVars, donateVars, remoteVars>>
  \/ /\ \E call \in {1, 2} :
          /\ overlap.sent[call] < MaxFrags
          /\ ChannelMessage(call)
     /\ UNCHANGED <<hyperVars, limiterVars, donateVars, remoteVars>>
  \/ /\ \E call \in {1, 2} : ChannelDone(call)
     /\ UNCHANGED <<hyperVars, limiterVars, donateVars, remoteVars>>
  \/ /\ DoneTimeoutFires(FALSE)
     /\ UNCHANGED otherVars
  \/ /\ OverlapDoneTimeoutFires
     /\ UNCHANGED <<hyperVars, limiterVars, donateVars, remoteVars>>
  \/ /\ OverlapTick
     /\ UNCHANGED <<hyperVars, limiterVars, donateVars, remoteVars>>

SpecOverlap == Init /\ [][NextOverlap]_vars

\* a short fragment and a long one, each written or with its first write
\* throwing; the short one also with the write of the placeholder throwing
WriteInputs ==
  {<<[kind |-> "string", str |-> f], fail>> :
     f \in {[id |-> "Hel", len |-> 3], [id |-> "N", len |-> chunkSize + 1]},
     fail \in {{}, {1}}}
  \cup {<<[kind |-> "string", str |-> [id |-> "Hel", len |-> 3]], {1, 2}>>}

\* the relay under serialization failures: one call and its fragments
NextWrites ==
  \/ /\ \E q \in RelayHandshakes : Connect(1, q)
     /\ UNCHANGED otherVars
  \/ /\ requests < MaxRelayRequests
     /\ \E auth \in RelayAuthHeaders, st \in Flags, ns \in Flags :
          PostChatCompletions(auth, "array", st, ns)
     /\ UNCHANGED otherVars
  \/ /\ frags < MaxMessages
     /\ \E in \in WriteInputs : OnMessage(in[1], in[2])
     /\ UNCHANGED otherVars

SpecWrites == Init /\ [][NextWrites]_vars

\* the relay under transport errors: one call, its done, its timers and as
\* many 'error' events as pass the ceiling
NextErrors ==
  \/ /\ \E q \in RelayHandshakes : Connect(1, q)
     /\ UNCHANGED otherVars
  \/ /\ requests < MaxRelayRequests
     /\ \E auth \in RelayAuthHeaders, st \in Flags, ns \in Flags :
          PostChatCompletions(auth, "array", st, ns)
     /\ UNCHANGED otherVars
  \/ /\ dones < MaxDone
     /\ OnDone
     /\ UNCHANGED otherVars
  \/ /\ \E throws \in BOOLEAN : DoneTimeoutFires(throws)
     /\ UNCHANGED otherVars
  \/ /\ DisconnectTimeoutFires
     /\ UNCHANGED otherVars
  \/ /\ gen.connectionErrors < MaxErrorEvents
     /\ ReplyError
     /\ UNCHANGED otherVars
  \/ /\ TickClock
     /\ UNCHANGED otherVars

SpecErrors == Init /\ [][NextErrors]_vars

\* the registry and the admission of requests: every handshake, every header
NextRegistry ==
  \/ /\ \E s \in Sockets, q \in HandshakeKeys : Connect(s, q)
     /\ UNCHANGED otherVars
  \/ /\ \E s \in Sockets : SocketDisconnect(s)
     /\ UNCHANGED otherVars
  \/ /\ requests < MaxRequests
     /\ \E auth \in AuthHeaders, m \in MessagesShapes, f \in RegistryFlags :
          PostChatCompletions(auth, m, f[1], f[2])
     /\ UNCHANGED otherVars

SpecRegistry == Init /\ [][NextRegistry]_vars

\* timers fire and the clock advances; the remote end and the caller are free
FairSpec ==
  /\ Spec
  /\ WF_vars(TickClock /\ UNCHANGED otherVars)
  /\ WF_vars((\E throws \in BOOLEAN : DoneTimeoutFires(throws))
               /\ UNCHANGED otherVars)
  /\ WF_vars(DisconnectTimeoutFires /\ UNCHANGED otherVars)

TypeOK ==
  /\ phase \in {"idle", "answered", "running"}
  /\ gen.doneTimeout \in {NoTimer} \cup 0..DoneDelay
  /\ gen.disconnectTimeout \in {NoTimer} \cup 0..DisconnectDelay
  /\ gen.timeSinceLastMessage \in 0..QuietPeriod
  /\ gen.errorCount \in 0..MAX_ERRORS

\* ------------------------------------------------------------------ claims
SocketKey(s) == sockets[s].query.value
Live(s) == sockets[s].state = "connected"

\* C1: for every key, the registered channel is the newest live channel that
\* connected with it: a channel that is still connected is the one lookup
\* returns for its key, every registered channel is connected under that
\* key, and so a channel displaced by a later registration is closed and
\* stays out of the registry after its disconnect has been handled.
C1_RegistryReplacement ==
  /\ \A s \in Sockets : Live(s) => lookup(SocketKey(s)) = s
  /\ \A k \in DOMAIN connected_users :
       /\ connected_users[k].socket \in Sockets
       /\ Live(connected_users[k].socket)
       /\ SocketKey(connected_users[k].socket) = k

\* a channel was force-closed by a later registration of its key, and lookup
\* returns the later channel
C1_Witness ==
  \E s, t \in Sockets :
    /\ s < t
    /\ ValidKey(sockets[s].query)
    /\ sockets[s].state = "closed"
    /\ sockets[s].reason = "forced server close"
    /\ SocketKey(t) = SocketKey(s)
    /\ Live(t)
    /\ lookup(SocketKey(s)) = t

\* the credential of a request
BearerOK(auth) == auth.present /\ StartsWith(auth.value, Bearer)
Unregistered(auth) ==
  ~BearerOK(auth) \/ lookup(trim(SplitToken(auth.value, 1))) = NoSocket
Answered(status) ==
  phase = "answered" /\ Len(reply) = 1 /\ reply[1].type = "send" /\ reply[1].status = status

\* C4 as stated: every request whose credential has no registered channel
\* (or whose header is missing or not Bearer) is answered 401 and emits
\* nothing, attaches nothing and leaves total_messages alone.
C4_Unauthorized ==
  [][\A auth \in AuthHeaders, m \in MessagesShapes, f \in RegistryFlags :
       (PostChatCompletions(auth, m, f[1], f[2]) /\ Unregistered(auth))
       => /\ Answered(401)'
          /\ emitted' = emitted
          /\ gen'.listeners = {}
          /\ total_messages' = total_messages]_vars

\* C4 amended: the same, for a request whose header is missing or not Bearer
\* (whatever its body), and for a request with a Bearer credential that has
\* no registered channel and whose messages field is an array.
C4_UnauthorizedArray ==
  [][\/ /\ Answered(401)'
        /\ emitted' = emitted
        /\ gen'.listeners = {}
        /\ total_messages' = total_messages
     \/ ~\E auth \in AuthHeaders, m \in MessagesShapes, f \in RegistryFlags :
           /\ Unregistered(auth)
           /\ ~BearerOK(auth) \/ m \in {"emptyArray", "array"}
           /\ PostChatCompletions(auth, m, f[1], f[2])]_vars

\* a request with a Bearer credential was refused for want of a channel
\* while another key had one
C4_Witness ==
  /\ Answered(401)
  /\ reply[1].payload = "no connected frontend for this user. are you using the right key?"
  /\ DOMAIN connected_users # {}
  /\ total_messages = 0

\* C5: a request with a registered Bearer credential whose messages field is
\* absent, not an array or an empty array is answered 400 and emits no
\* start_generate.
C5_BadRequest ==
  [][\A auth \in AuthHeaders, m \in {"undefined", "string", "emptyArray"},
        f \in RegistryFlags :
       (PostChatCompletions(auth, m, f[1], f[2]) /\ ~Unregistered(auth))
       => (Answered(400)' /\ emitted' = emitted)]_vars

Streaming == phase = "running" /\ ~gen.wantsNonStream
Aggregating == phase = "running" /\ gen.wantsNonStream

\* the fragments a sequence of chunk events spells out: consecutive slices
\* of one string that start at 0 and run to its end make that string
Broken == [id |-> "?", len |-> -1]
RECURSIVE Extent(_, _)
Extent(cs, j) ==
  IF cs[j].to = cs[j].len THEN j
  ELSE IF j < Len(cs) /\ cs[j + 1].id = cs[j].id /\ cs[j + 1].from = cs[j].to
  THEN Extent(cs, j + 1)
  ELSE 0
RECURSIVE Reassemble(_)
Reassemble(cs) ==
  IF cs = <<>> THEN <<>>
  ELSE IF cs[1].from # 0 \/ Extent(cs, 1) = 0 THEN <<Broken>>
  ELSE <<[id |-> cs[1].id, len |-> cs[1].len]>>
       \o Reassemble(SubSeq(cs, Extent(cs, 1) + 1, Len(cs)))

IsTerminal(w) == w.type \in {"done", "end"}
Terminals == {i \in 1..Len(reply) : IsTerminal(reply[i])}
ChunkContents ==
  LET body == SelectSeq(reply, LAMBDA w : w.type = "chunk")
  IN [i \in 1..Len(body) |-> body[i].content]

\* C2: a streaming relay call writes the fragments it received as chunk
\* events in the order received (as long as no write threw), and writes the
\* terminal marker and the end of the response at most once, as the last
\* two writes, exactly when it finalizes; a second done changes none of it.
C2_OrderedSingleTerminal ==
  Streaming =>
    /\ reply[1].type = "writeHead"
    /\ \A i \in 2..Len(reply) : reply[i].type \in {"chunk", "done", "end"}
    /\ Terminals # {} =>
         /\ Terminals = {Len(reply) - 1, Len(reply)}
         /\ reply[Len(reply) - 1] = DoneEvent
         /\ reply[Len(reply)] = EndEvent
         /\ finalized
    /\ ~writeThrew => Reassemble(ChunkContents) = delivered
    /\ (finalized /\ ~writeThrew) => Terminals # {}

\* two different fragments, then done twice, then the finalization
C2_Witness ==
  /\ Streaming
  /\ finalized
  /\ ~writeThrew
  /\ dones = 2
  /\ Len(delivered) = 2
  /\ delivered[1] # delivered[2]
  /\ Terminals # {}

\* C3: a relay call that has dispatched start_generate reaches CLOSED, when
\* the remote end has sent done and when the channel has closed without it.
C3_NeverHangs ==
  /\ (phase = "running" /\ dones > 0) ~> Closed
  /\ (phase = "running" /\ ~Live(gen.userSocket)) ~> Closed

C7_ActiveGatesWrites ==
  [][(phase = "running" /\ ~gen.generationActive)
     => /\ reply' = reply
        /\ gen'.aggregatedContent = gen.aggregatedContent
        /\ gen'.timeSinceLastMessage >= gen.timeSinceLastMessage
        /\ total_messages' = total_messages
        /\ total_message_len' = total_message_len
        /\ delivered' = delivered
        /\ ~gen'.generationActive
        /\ (frags' # frags \/ dones' # dones)
             => /\ gen'.doneTimeout = gen.doneTimeout
                /\ gen'.disconnectTimeout = gen.disconnectTimeout]_vars

\* the finalize check has fired on a call that a confirmed disconnect had
\* already closed, and wrote nothing
C7_Witness ==
  /\ Streaming
  /\ ~gen.generationActive
  /\ ~finalized
  /\ cleanupCalls >= 2
  /\ Terminals = {}

\* C8: in every state of a relay call, cleanup applied twice gives what
\* cleanup applied once gives (active, timers, listeners; cleanup does not
\* touch the response).
C8_CleanupIdempotent ==
  phase = "running" => cleanup(cleanup(gen)) = cleanup(gen)

\* cleanup has run twice on one call, the second time with the disconnect
\* timer armed again by the transport's close
C8_Witness ==
  /\ phase = "running"
  /\ cleanupCalls >= 2
  /\ closeEmitted
  /\ gen = cleanup(gen)

\* C9: after cleanup has run, neither timer of the call is pending and
\* neither listener is attached.
C9_NoTimerAfterCleanup ==
  (phase = "running" /\ cleanupCalls >= 1)
  => /\ gen.doneTimeout = NoTimer
     /\ gen.disconnectTimeout = NoTimer
     /\ gen.listeners = {}

\* C10: a fragment of at most 8000 characters is written as one chunk event
\* holding all of it; a longer one as ceil(L / 8000) chunk events that are
\* consecutive slices of 8000 characters, the last one running to the end.
C10_FragmentSplitting ==
  (Streaming /\ lastMsg.seen /\ ~lastMsg.threw)
  => LET L == lastMsg.content.len
         ps == lastMsg.pieces
         n == Len(ps)
     IN /\ L <= 8000 => n = 1
        /\ L > 8000 => n = (L + 7999) \div 8000
        /\ \A i \in 1..n :
             /\ ps[i].type = "chunk"
             /\ ps[i].content.id = lastMsg.content.id
             /\ ps[i].content.from = (i - 1) * 8000
             /\ ps[i].content.to = IF i < n THEN i * 8000 ELSE L
        /\ Len(ChunkContents) >= n
        /\ \A i \in 1..n : ChunkContents[Len(ChunkContents) - n + i] = ps[i].content

\* a fragment of 8001 characters went out as 8000 + 1
C10_Witness ==
  /\ Streaming
  /\ lastMsg.seen
  /\ ~lastMsg.threw
  /\ lastMsg.content.len = 8001
  /\ Len(lastMsg.pieces) = 2
  /\ lastMsg.pieces[2].content.to - lastMsg.pieces[2].content.from = 1

\* a fragment arrived after the 'close' that armed the pending debounce
\* timer: its age is less than the time the timer has been running
MessageAfterClose ==
  /\ closeEmitted
  /\ lastMsg.seen
  /\ gen.disconnectTimeout # NoTimer
  /\ gen.timeSinceLastMessage < DisconnectDelay - gen.disconnectTimeout

\* C11: when the 'close' of the HTTP transport was followed by a fragment
\* within 2000 ms, the debounce timer of that close does not abort the call:
\* its callback emits no stop_generation and does not close the call.
C11_DisconnectDebounce ==
  [][(MessageAfterClose /\ gen.generationActive /\ DisconnectTimeoutFires)
     => (emitted' = emitted /\ gen'.generationActive)]_vars

\* C18: a channel that connects with a missing, non-string or shorter than
\* 10 character key is closed by the server at once and the registry and
\* every other channel stay as they were; every key of the registry has at
\* least 10 characters.
C18_InvalidKeyRejected ==
  [][/\ \A s \in Sockets, q \in HandshakeKeys :
          (Connect(s, q) /\ (q.type # "string" \/ Len(q.value) < 10))
          => /\ sockets'[s].state = "closed"
             /\ sockets'[s].reason = "forced server close"
             /\ connected_users' = connected_users
             /\ \A t \in Sockets \ {s} : sockets'[t] = sockets[t]
     /\ \A k \in DOMAIN connected_users' : Len(k) >= 10]_vars

\* a channel with a key of 9 characters was closed by the server while the
\* channel of another key stayed registered and connected
C18_Witness ==
  \E s, t \in Sockets :
    /\ sockets[s].state = "closed"
    /\ sockets[s].query = [type |-> "string", value |-> ShortKey]
    /\ sockets[s].reason = "forced server close"
    /\ t < s
    /\ Live(t)
    /\ lookup(SocketKey(t)) = t

\* the place of a model in the catalog, and the models that are up
Place(m) == CHOOSE i \in ModelIndex : models[i] = m
UpModels == {m \in DOMAIN status_models : status_models[m] = 1}
CatalogOrdered(seq) == \A a, b \in 1..Len(seq) : a < b => Place(seq[a]) < Place(seq[b])
Range(seq) == {seq[i] : i \in 1..Len(seq)}

\* C12: generate attempts the models that are up in catalog order; when the
\* first k of them fail and the next one succeeds it returns that model's
\* result, the k failed models are down afterwards, and no later model was
\* contacted.
C12_FailoverOrder ==
  [][/\ (gcall.state # "running" /\ gcall'.state = "running")
          => /\ Range(gcall'.availableModels) = UpModels
             /\ CatalogOrdered(gcall'.availableModels)
             /\ gcall'.contacted = <<>>
     /\ (gcall.state = "running" /\ gcall'.state = "returned")
          => LET av == gcall.availableModels
                 k == Len(gcall.contacted)
             IN /\ gcall.contacted = SubSeq(av, 1, k)
                /\ gcall'.contacted = SubSeq(av, 1, k + 1)
                /\ gcall'.result.model = av[k + 1]
                /\ \A j \in 1..k : status_models'[av[j]] = -1
                /\ status_models'[av[k + 1]] = 1
     /\ \A responses \in RetryInputs(maxRetries) :
           (AttemptNonStreaming(responses) /\ gcall'.state = "returned")
           => \E i \in 1..maxRetries :
                /\ responses[i].kind = "content"
                /\ \A j \in 1..(i - 1) : responses[j].kind # "content"
                /\ gcall'.result.value = responses[i].content
     /\ (gcall.state = "returned" /\ gcall'.state = "returned")
          => gcall'.contacted = gcall.contacted]_vars

\* three models were attempted, the first two failed and are down, the third
\* answered, and a fourth model that was up was left alone
C12_Witness ==
  /\ gcall.state = "returned"
  /\ Len(gcall.contacted) = 3
  /\ Len(gcall.availableModels) >= 4
  /\ gcall.result.model = gcall.contacted[3]
  /\ status_models[gcall.contacted[1]] = -1
  /\ status_models[gcall.contacted[2]] = -1
  /\ status_models[gcall.availableModels[4]] = 1

\* C13: when every model that was up at the start fails, generate fails with
\* the aggregate error that carries the message of the last failure, every
\* attempted model is down and current_best_model is empty; when no model is
\* up at the start it fails with no request made and no status changed.
C13_AllFailed ==
  [][/\ (gcall.state = "running" /\ gcall'.state = "failed")
          => /\ gcall'.error.message = "All available models failed. Last error: "
             /\ gcall'.error.last = gcall'.lastError
             /\ gcall'.contacted = gcall.availableModels
             /\ \A m \in Range(gcall.availableModels) : status_models'[m] = -1
             /\ current_best_model' = NoModel
     /\ \A responses \in RetryInputs(maxRetries) :
           (AttemptNonStreaming(responses) /\ gcall'.state = "failed")
           => /\ gcall'.httpRequests = maxRetries
              /\ gcall'.error.last = makeRequest(responses[maxRetries]).error
     /\ \A streaming \in BOOLEAN :
           (GenerateResponse("array", streaming) /\ UpModels = {})
           => /\ gcall'.state = "failed"
              /\ gcall'.error.message # "All available models failed. Last error: "
              /\ gcall'.contacted = <<>>
              /\ gcall'.httpRequests = 0
              /\ UNCHANGED <<status_models, status_engines, current_best_model>>]_vars

\* two models were up, both were attempted and failed
C13_Witness ==
  /\ gcall.state = "failed"
  /\ Len(gcall.contacted) = 2
  /\ gcall.error.message = "All available models failed. Last error: "
  /\ gcall.error.last = "HTTP 500"
  /\ current_best_model = NoModel
  /\ UpModels = {}

\* a response the probe accepts: a completion whose content holds "test"
Accepted(r) == r.kind = "content" /\ includes(toLowerCase(r.content), TestWord)

\* C14: when the probe of a model succeeds, the model and its engine are up;
\* when it fails (timeout, malformed response, wrong content) both are
\* down; every status value is 0, 1 or -1.
C14_ProbeStatus ==
  [][/\ \A responses \in RetryInputs(checkRetries) :
           (check \in ModelIndex /\ ProbeModel(responses))
           => LET m == models[check]
                  v == IF \E i \in 1..checkRetries : Accepted(responses[i]) THEN 1 ELSE -1
              IN /\ status_models'[m] = v
                 /\ status_engines'[conversion[m]] = v
     /\ \A m \in DOMAIN status_models' : status_models'[m] \in {0, 1, -1}
     /\ \A e \in DOMAIN status_engines' : status_engines'[e] \in {0, 1, -1}]_vars

\* in one run the first model of an engine passed and the second one failed:
\* the second is down and so is the engine; a model of another engine is up
C14_Witness ==
  /\ check = 3
  /\ status_models[models[1]] = 1
  /\ status_models[models[2]] = -1
  /\ status_engines[conversion[models[2]]] = -1
  /\ \E m \in DOMAIN status_models : status_models[m] = 0

\* C15: when an autoCheck run ends, current_best_model is the first model in
\* catalog order that is up, and is empty when no model is up.
C15_BestIsFirstUp ==
  [][(check = Len(models) /\ check' = 0)
     => LET up == {i \in ModelIndex : status_models'[models[i]] = 1}
        IN current_best_model' =
             IF up = {} THEN NoModel
             ELSE models[CHOOSE i \in up : \A j \in up : i <= j]]_vars

\* the lines of a stream that are complete when it ends, in order, and the
\* content fragments among them
RECURSIVE CompleteLines(_, _)
CompleteLines(reads, n) ==
  IF n > Len(reads) THEN <<>>
  ELSE reads[n].lines
       \o (IF n < Len(reads) /\ reads[n].open # NoLine THEN <<reads[n].open>> ELSE <<>>)
       \o CompleteLines(reads, n + 1)
IsFragment(line) == line.kind = "delta" /\ line.content # <<>>
ContentFragments(stream) ==
  LET ls == SelectSeq(CompleteLines(stream.reads, 1), IsFragment)
  IN [i \in 1..Len(ls) |-> ls[i].content]

\* C16: a streaming attempt on a model makes one HTTP request, calls the
\* callback once for each content fragment parsed, in order, and fails the
\* model when the stream ends with no fragment delivered.
C16_StreamingAttempt ==
  [][\A stream \in Streams :
       AttemptStreaming(stream)
       => LET model == gcall.availableModels[gcall.i]
          IN /\ gcall'.httpRequests = 1
             /\ gcall'.contacted = Append(gcall.contacted, model)
             /\ stream.ok => gcall'.onChunk = ContentFragments(stream)
             /\ ~stream.ok => gcall'.onChunk = <<>>
             /\ (stream.ok /\ stream.ends = "done" /\ ContentFragments(stream) = <<>>)
                => /\ gcall'.state # "returned"
                   /\ gcall'.lastError = "Stream ended without receiving any content"
                   /\ status_models'[model] = -1
             /\ (stream.ok /\ stream.ends = "done" /\ ContentFragments(stream) # <<>>)
                => /\ gcall'.state = "returned"
                   /\ gcall'.result.model = model]_vars

\* a stream whose second fragment is split over two reads delivered both
\* fragments in order, with one request
C16_Witness ==
  /\ gcall.state = "returned"
  /\ gcall.streaming
  /\ gcall.httpRequests = 1
  /\ gcall.onChunk = <<Hel.content, Lo.content>>

\* C17: for every key (identity and URL) at most 100 requests are let
\* through in one window; a further request inside the window is answered
\* 429 and is not let through; the first request after the window has
\* elapsed starts a new window with count 1.
C17_RateLimit ==
  [][/\ \A k \in DOMAIN forwarded' : forwarded'[k] <= 100
     /\ \A request \in HookRequests :
          (PreHandler(request) /\ ~skipped(request))
          => LET key == rateKey(request)
             IN /\ (InWindow(rateLimitStore, key) /\ forwarded[key] >= 100)
                   => /\ hooked' = "429"
                      /\ forwarded'[key] = forwarded[key]
                      /\ rateLimitStore'[key].resetIn = rateLimitStore[key].resetIn
                /\ (has(rateLimitStore, key) /\ rateLimitStore[key].resetIn < 0)
                   => /\ hooked' = "forwarded"
                      /\ rateLimitStore'[key] = [count |-> 1, resetIn |-> 60000]
                      /\ forwarded'[key] = 1
                /\ \A k \in DOMAIN rateLimitStore \ {key} :
                     /\ rateLimitStore'[k] = rateLimitStore[k]
                     /\ forwarded'[k] = forwarded[k]]_vars

\* the 101st request of a key inside its window was answered 429 at the
\* moment the window's reset time was reached, while another key had let
\* fewer through
C17_Witness ==
  /\ hooked = "429"
  /\ \E k, j \in DOMAIN rateLimitStore :
       /\ rateLimitStore[k] = [count |-> 101, resetIn |-> 0]
       /\ forwarded[k] = 100
       /\ InWindow(rateLimitStore, j)
       /\ forwarded[j] < 100

\* C19: the store never holds more than 1000 entries, no entry has more
\* than 15 messages, and the store is the most recent 1000 accepted
\* transcripts in the order they were accepted.
C19_Capacity ==
  /\ Len(donateFile) <= 1000
  /\ \A i \in 1..Len(donateFile) : Len(donateFile[i]) <= 15
  /\ donateFile = lastOf(accepted, 1000)

\* two transcripts have the same normalized content in their first five
\* messages (and as few messages, when they have fewer than five)
IdenticalFirstFive(a, b) ==
  \A i \in 1..5 :
    /\ (i <= Len(a)) <=> (i <= Len(b))
    /\ (i <= Len(a)) => normalizeMessageContent(a[i]) = normalizeMessageContent(b[i])

\* C20: a submission whose first five messages are, normalized, those of one
\* of the most recent stored entries is answered as a duplicate and neither
\* the store nor a write to it follows.
C20_DuplicateDetected ==
  [][\A body \in DonateBodies :
       (/\ Donate(body)
        /\ body.isArray
        /\ \E j \in 1..Len(donateFile) :
             /\ j > Len(donateFile) - 100
             /\ IdenticalFirstFive(body.messages, donateFile[j]))
       => /\ donateReply' = "duplicate skipped"
          /\ donateFile' = donateFile
          /\ writing' = writing]_vars

\* the message counts of two transcripts differ by more than 30% of the
\* larger count
LengthGated(a, b) ==
  LET diff == IF Len(a) >= Len(b) THEN Len(a) - Len(b) ELSE Len(b) - Len(a)
      larger == IF Len(a) >= Len(b) THEN Len(a) ELSE Len(b)
  IN 100 * diff > 30 * larger

\* the messages both transcripts have among the first five are, normalized,
\* the same, and there is at least one
SameCompared(a, b) ==
  /\ Len(a) >= 1
  /\ Len(b) >= 1
  /\ \A i \in 1..5 :
       (i <= Len(a) /\ i <= Len(b))
       => normalizeMessageContent(a[i]) = normalizeMessageContent(b[i])

\* C21: a submission and a stored transcript whose message counts differ by
\* more than 30% of the larger count have similarity 0, whatever they hold,
\* and a submission in that relation to every recent entry is not flagged
\* (its write is started);
\* a pair whose counts differ by 30% or less is compared: when the compared
\* messages are the same the submission is flagged.
C21_LengthGate ==
  [][\A body \in DonateBodies :
       (Donate(body) /\ body.isArray)
       => LET recent == lastOf(donateFile, 100)
          IN /\ \A j \in 1..Len(recent) :
                  LengthGated(body.messages, recent[j])
                  => calculateMessagesSimilarity(body.messages, recent[j]) = Value(Zero)
             /\ (\A j \in 1..Len(recent) : LengthGated(body.messages, recent[j]))
                => writing' = Append(writing, pushed(body.messages, donateFile))
             /\ (\E j \in 1..Len(recent) :
                   /\ ~LengthGated(body.messages, recent[j])
                   /\ SameCompared(body.messages, recent[j]))
                => (donateReply' = "duplicate skipped" /\ writing' = writing)]_vars

\* ten copies of one message and then 22 copies of it were both accepted
\* (the counts differ by more than half), and a third submission was flagged
C21_Witness ==
  /\ accepted = <<Rep(HiThere, 10), Rep(HiThere, storedMessages)>>
  /\ donations = 3
  /\ donateReply = "duplicate skipped"

\* the done events of a generation, by their place among its events
DonesOf(r) == {i \in 1..Len(runs[r].emits) : runs[r].emits[i] = DoneSignal}

\* C22: as long as no stop_generation was received, a generation emits no
\* event after its done, at most one done, and when its engine function has
\* ended (returned or thrown) it has emitted its done.
C22_RemoteProtocol ==
  remote.stops = 0
  => \A r \in 1..Len(runs) :
       /\ Cardinality(DonesOf(r)) <= 1
       /\ \A i \in DonesOf(r) : i = Len(runs[r].emits)
       /\ Ended(runs[r]) => DonesOf(r) # {}

\* the step writes the terminal marker of a streamed response or the
\* aggregated result
Finalizes ==
  /\ Len(reply') > Len(reply)
  /\ reply'[Len(reply')].type \in {"end", "json"}

\* C23: the terminal marker or the aggregated result is written only when at
\* least 2000 ms have passed since lastMessageTime and at least 4000 ms since
\* the most recent done.
C23_QuietPeriod ==
  [][Finalizes => /\ gen.timeSinceLastMessage >= QuietPeriod
                  /\ gen.timeSinceDone >= DoneDelay]_vars

\* a call is finalized that got a fragment after its first done and then a
\* second done
C23_Witness ==
  /\ finalized
  /\ lastMsg.afterDone
  /\ dones = 2
  /\ reply # <<>>
  /\ reply[Len(reply)].type \in {"end", "json"}

\* C24: when the finalize check runs with e < 2000 ms since lastMessageTime,
\* it is armed again to run after 2000 - e ms.
C24_Reschedule ==
  [][(\E throws \in BOOLEAN : DoneTimeoutFires(throws))
       /\ gen.timeSinceLastMessage < QuietPeriod
     => gen'.doneTimeout = QuietPeriod - gen.timeSinceLastMessage]_vars

\* C25: a close event of the HTTP transport arms a timer of 2000 ms.  When
\* the timer fires on an active call, the call becomes inactive,
\* stop_generation is emitted to its channel and the call is CLOSED; when it
\* fires on a call that is not active, nothing is emitted, nothing is written
\* and the call's variables stay as they are.
C25_ConfirmedDisconnect ==
  [][/\ ReplyClose => gen'.disconnectTimeout = DisconnectDelay
     /\ DisconnectTimeoutFires =>
          IF gen.generationActive
          THEN /\ ~gen'.generationActive
               /\ emitted' = emit(emitted, gen.userSocket, "stop_generation")
               /\ gen'.listeners = {}
               /\ gen'.disconnectTimeout = NoTimer
          ELSE /\ emitted' = emitted
               /\ reply' = reply
               /\ gen' = [gen EXCEPT !.disconnectTimeout = NoTimer]]_vars

\* the caller closed the connection of a call that had relayed a fragment,
\* and the call was stopped by the timer
C25_Witness ==
  /\ closeEmitted
  /\ Closed
  /\ frags > 0
  /\ ~finalized
  /\ ~writeThrew
  /\ gen.disconnectTimeout = NoTimer
  /\ emitted[gen.userSocket] = <<"start_generate", "stop_generation">>

\* below 60 error events of the HTTP transport nothing but the count changes
ErrorsBelowCeilingTolerated ==
  [][ReplyError /\ gen.connectionErrors + 1 < MAX_CONNECTION_ERRORS
     => /\ gen' = [gen EXCEPT !.connectionErrors = @ + 1]
        /\ emitted' = emitted]_vars

\* C26: once the count of error events of the HTTP transport has reached 60,
\* a call that is still active is inside the 2000 ms that follow the 60th
\* error, or the timer that stops it is due at this moment.
C26_ErrorCeiling ==
  phase = "running" /\ gen.generationActive /\ gen.timeSinceCeiling # NoTimer
  => \/ gen.timeSinceCeiling < DisconnectDelay
     \/ gen.timeSinceCeiling = DisconnectDelay /\ gen.disconnectTimeout = 0

\* the events emitted to the channel of the call
StopsEmitted ==
  Cardinality({i \in 1..Len(emitted[gen.userSocket]) :
                 emitted[gen.userSocket][i] = "stop_generation"})

\* C27: for a streamed call, a fragment whose writes all succeed, written
\* whole or in pieces, sets errorCount to 0; a fragment whose serialization
\* fails adds 1 to it, and then either errorCount is below 3, a placeholder
\* chunk (or nothing, when its write fails too) is written and the call stays
\* active, or errorCount is 3, the call is CLOSED and stop_generation was
\* emitted exactly once.
C27_SerializationFailures ==
  [][\A in \in WriteInputs :
       OnMessage(in[1], in[2]) /\ gen.generationActive /\ ~gen.wantsNonStream
       => IF in[2] = {}
          THEN /\ gen'.errorCount = 0
               /\ gen'.generationActive
          ELSE IF in[1].str.len > chunkSize
          THEN gen'.generationActive
          ELSE /\ gen'.errorCount = gen.errorCount + 1
               /\ IF gen'.errorCount < MAX_ERRORS
                  THEN /\ gen'.generationActive
                       /\ reply' \in {reply, Append(reply, ChunkEvent(Whole(ErrorNotice)))}
                       /\ emitted' = emitted
                  ELSE /\ ~gen'.generationActive
                       /\ gen'.listeners = {}
                       /\ reply' = reply
                       /\ StopsEmitted' = 1]_vars

RECURSIVE SumLen(_)
SumLen(cs) == IF cs = <<>> THEN 0 ELSE cs[1].len + SumLen(Tail(cs))

\* C28: total_messages is the number of accepted relay requests, and as long
\* as no write failed total_message_len is the sum of the lengths of the
\* fragments the relay call handled, streamed whole, streamed in pieces or
\* accumulated.
C28_Counters ==
  /\ total_messages = IF phase = "running" THEN 1 ELSE 0
  /\ ~writeThrew => total_message_len = SumLen(delivered)

\* C29: a step of a generateResponse call leaves status_engines alone, and
\* a call that returns after it contacted one model only leaves
\* status_models and current_best_model alone as well.
C29_GenerateFrame ==
  [][/\ (gcall' # gcall \/ gcalls' # gcalls) => status_engines' = status_engines
     /\ gcall.state = "running" /\ gcall'.state = "returned" /\ Len(gcall'.contacted) = 1
        => UNCHANGED <<status_engines, status_models, current_best_model>>]_vars

\* a call has returned from the first model it contacted, which is not the
\* first model of the catalog
C29_Witness ==
  /\ gcall.state = "returned"
  /\ Len(gcall.contacted) = 1
  /\ gcall.result.model = gcall.contacted[1]
  /\ gcall.result.model # models[1]
  /\ status_models[gcall.result.model] = 1

\* the first request of responses that makeRequest takes as a success, or 0
FirstOk(responses) ==
  LET oks == {i \in 1..Len(responses) : makeRequest(responses[i]).ok}
  IN IF oks = {} THEN 0 ELSE CHOOSE i \in oks : \A j \in oks : i <= j

\* C30: a non-streaming attempt on one model makes at most 3 requests.  It
\* returns the content of the first good response without a further request,
\* having waited 1000 ms after the first failure and 2000 ms after the second;
\* after 3 failures it has waited 3000 ms in all, fails with the error of the
\* third, and only then the model is marked down.
C30_NonStreamingRetries ==
  [][\A responses \in RetryInputs(maxRetries) :
       AttemptNonStreaming(responses)
       => LET model == gcall.availableModels[gcall.i]
              first == FirstOk(responses)
              r == generateNonStreamingResponse(responses)
          IN /\ gcall'.httpRequests = r.calls
             /\ r.calls <= 3
             /\ r.waited = CASE r.calls = 1 -> 0
                             [] r.calls = 2 -> 1000
                             [] OTHER -> 1000 + 2000
             /\ IF first # 0
                THEN /\ r.calls = first
                     /\ gcall'.state = "returned"
                     /\ gcall'.result.value = responses[first].content
                     /\ status_models' = status_models
                ELSE /\ r.calls = 3
                     /\ gcall'.lastError = makeRequest(responses[3]).error
                     /\ status_models'[model] = -1]_vars

\* a non-streaming call returned the content of the third response of a model
C30_Witness ==
  /\ gcall.state = "returned"
  /\ ~gcall.streaming
  /\ gcall.httpRequests = 3
  /\ gcall.result.value # <<>>

\* the requests one probe of autoCheck makes for the responses it gets
probeRequests(responses) ==
  retryWithBackoff([i \in 1..checkRetries |-> checkModel(responses[i])],
                   checkRetries, checkRetryDelay)

\* C31: probeAll probes the models one after the other in catalog order, and
\* a model whose probe request fails is retried up to 2 times (base delay
\* 500 ms), so that a model is marked down only after its initial probe and 2
\* retries, 3 requests in all, have failed.
C31_ProbeRetries ==
  [][\A responses \in RetryInputs(checkRetries) :
       ProbeModel(responses)
       => LET model == models[check]
              r == probeRequests(responses)
          IN /\ \A m \in DOMAIN status_models :
                  m # model => status_models'[m] = status_models[m]
             /\ check' = IF check < Len(models) THEN check + 1 ELSE 0
             /\ r.calls <= 1 + 2
             /\ status_models'[model] = -1 => r.calls = 1 + 2 /\ r.waited = 500 + 1000]_vars

\* C32: the sweep removes exactly the records whose window has elapsed and
\* leaves the others as they are, and it is invisible to the requests: from
\* the store as it is and from the store swept at this moment, every request
\* gets the same outcome and time passes alike, and the two stores that
\* result differ at most in records a sweep would remove.  Hence a limiter
\* that is swept at any moments and one that is never swept answer every
\* sequence of requests alike.
C32_SweepTransparent ==
  LET swept == sweep(rateLimitStore)
  IN /\ DOMAIN swept = {k \in DOMAIN rateLimitStore : rateLimitStore[k].resetIn >= 0}
     /\ \A k \in DOMAIN swept : swept[k] = rateLimitStore[k]
     /\ sweep(swept) = swept
     /\ sweep(later(swept)) = sweep(later(rateLimitStore))
     /\ \A request \in HookRequests :
          LET kept == rateLimit(rateLimitStore, request)
              gone == rateLimit(swept, request)
          IN /\ gone.sent429 = kept.sent429
             /\ sweep(gone.store) = sweep(kept.store)

\* a sweep has deleted the record of one key, and the 101st request of
\* another key was answered 429 at the moment its reset time was reached
C32_Witness ==
  /\ hooked = "429"
  /\ \E k \in DOMAIN forwarded : ~has(rateLimitStore, k)
  /\ \E j \in DOMAIN rateLimitStore : rateLimitStore[j] = [count |-> 101, resetIn |-> 0]

\* the response of a call carries the fragment: it was written to the stream
\* or aggregated into the result
Carries(rep, g, f) ==
  \/ \E i \in DOMAIN rep : rep[i] = ChunkEvent(Whole(f))
  \/ \E i \in DOMAIN g.aggregatedContent : g.aggregatedContent[i] = f
  \/ \E i \in DOMAIN rep : rep[i].type = "json" /\ \E j \in DOMAIN rep[i].content : rep[i].content[j] = f

\* C33: when two relay calls of one key are in flight on one channel, the
\* fragments and the done generated for one call's start_generate reach that
\* call's response only: no response carries a fragment generated for the
\* other call, and no call is finalized unless its own done was emitted.
C33_RelayIsolation ==
  /\ ~Carries(reply, gen, FragmentOf(2))
  /\ ~Carries(overlap.reply, overlap.gen, FragmentOf(1))
  /\ finalized => 1 \in overlap.doneOf
  /\ overlap.finalized => 2 \in overlap.doneOf

\* the stop_generation events in a sequence of emitted events
Stops(events) == Cardinality({i \in DOMAIN events : events[i] = "stop_generation"})

\* the response holds the terminal marker or the aggregated result
Terminal(rep) == \E i \in DOMAIN rep : rep[i] = DoneEvent \/ rep[i].type = "json"

C35_SingleSource ==
  gcall.streaming => \A i, j \in DOMAIN gcall.sources : gcall.sources[i] = gcall.sources[j]

\* C36: after probeAll has completed, every model whose status is up is
\* mapped to an engine whose status is up, whatever the probes of the models
\* that share the engine yielded.
C36_EngineModelConsistency ==
  (check = 0 /\ checkRuns > 0)
  => \A m \in DOMAIN status_models :
       status_models[m] = 1 => status_engines[conversion[m]] = 1

\* C37: no accepted submission is lost: every transcript whose submission
\* was answered "ok" is in the store afterwards (unless 1000 later ones have
\* displaced it), also when the reads and writes of two submissions of
\* non-duplicate transcripts interleave.
C37_NoLostSubmission ==
  \A i \in DOMAIN accepted :
    Len(accepted) - i < storedChats
    => \E j \in DOMAIN donateFile : donateFile[j] = accepted[i]

\* C38: a submission of the transcript that was accepted last (the last
\* stored entry holds its first 15 messages) while no other submission is in
\* flight is answered as a duplicate, whatever the length of the transcript,
\* and no second entry is stored for it.
C38_Resubmission ==
  [][\A body \in DonateBodies :
       (/\ Donate(body)
        /\ body.isArray
        /\ writing = <<>>
        /\ donateReply = "ok"
        /\ donateFile # <<>>
        /\ donateFile[Len(donateFile)] = firstOf(body.messages, storedMessages)
        /\ accepted[Len(accepted)] = firstOf(body.messages, storedMessages))
       => /\ donateReply' = "duplicate skipped"
          /\ writing' = <<>>]_vars

\* C39: after the remote end has processed a stop_generation (its
\* confirmation timer has fired), also one that found no generation running,
\* a later start_generate is serviced: its engine function does not return
\* without having emitted done.
C39_RecoversFromStop ==
  [][\A type \in EngineTypes, shape \in StartShapes, ready \in BOOLEAN, page \in Pages :
       (/\ StartGenerate(type, shape, ready, page)
        /\ remote.stops > 0
        /\ remote.stopTimers = 0
        /\ Running = {})
       => LET run == runs'[Len(runs')]
          IN run.pc = "returned" => DoneSignal \in {run.emits[i] : i \in DOMAIN run.emits}]_vars

\* C40: a stop_generation signal aborts only the generation that was in
\* progress when the remote end received it: when its confirmation timer
\* fires, no generation whose start_generate arrived after the signal is
\* aborted.
C40_StopAbortsOwnGeneration ==
  [][StopTimerFires
     => \A r \in DOMAIN runs :
          (runs'[r].aborted /\ ~runs[r].aborted) => r <= Head(remote.startedBefore)]_vars

====
